---------------------------- MODULE Spec2Model ----------------------------
(***************************************************************************)
(* A model of the document OCR pipeline of the aiocr repository:           *)
(*   - performOCR / performFallbackOCR (src/src/utils/ocrProcessor.ts)     *)
(*   - the batch loops Index.handleFileSelect (src/unnamed/part_001) and   *)
(*     processDocument (src/src/utils/ocrProcessor.ts)                     *)
(*   - cleanExtractedText and extractFields with its four extractors.      *)
(* Texts are TLA+ strings; the regular expressions of the source are       *)
(* written as syntax trees and run by a backtracking matcher that tries    *)
(* the alternatives in the order a JavaScript RegExp tries them.           *)
(***************************************************************************)
EXTENDS Integers, Sequences, FiniteSets, TLC

(***************************************************************************)
(* Characters and character classes                                        *)
(***************************************************************************)
UpperSeq == "ABCDEFGHIJKLMNOPQRSTUVWXYZ"
LowerSeq == "abcdefghijklmnopqrstuvwxyz"
DigitSeq == "0123456789"

CharsOf(str) == { SubSeq(str, i, i) : i \in 1..Len(str) }

Upper == CharsOf(UpperSeq)
Lower == CharsOf(LowerSeq)
Digit == CharsOf(DigitSeq)
\* \w and \s of a JavaScript RegExp (the white space the model's texts use)
WordCh == Upper \cup Lower \cup Digit \cup {"_"}
SpaceCh == {" ", "\t", "\n", "\r"}

ToLowerMap == [ c \in Upper |->
                  LET i == CHOOSE k \in 1..26 : SubSeq(UpperSeq, k, k) = c
                  IN  SubSeq(LowerSeq, i, i) ]
ToUpperMap == [ c \in Lower |->
                  LET i == CHOOSE k \in 1..26 : SubSeq(LowerSeq, k, k) = c
                  IN  SubSeq(UpperSeq, i, i) ]

lowerChar(c) == IF c \in Upper THEN ToLowerMap[c] ELSE c
upperChar(c) == IF c \in Lower THEN ToUpperMap[c] ELSE c

CharAt(s, i) == SubSeq(s, i, i)

\* s with the characters at positions lo..hi mapped by lowerChar (up = FALSE)
\* or upperChar (up = TRUE); the range is halved so that the evaluation stays
\* shallow on long texts
RECURSIVE mapCase(_, _, _, _)
mapCase(s, lo, hi, up) ==
  IF lo > hi THEN ""
  ELSE IF lo = hi
       THEN (IF up THEN upperChar(CharAt(s, lo)) ELSE lowerChar(CharAt(s, lo)))
  ELSE LET mid == (lo + hi) \div 2
       IN  mapCase(s, lo, mid, up) \o mapCase(s, mid + 1, hi, up)

toLowerCase(s) == mapCase(s, 1, Len(s), FALSE)
toUpperCase(s) == mapCase(s, 1, Len(s), TRUE)

\* the characters a class matches under the i flag
BothCases(S) == S \cup { lowerChar(c) : c \in S } \cup { upperChar(c) : c \in S }

\* the least element of a non-empty set of integers
Least(S) == CHOOSE j \in S : \A k \in S : j <= k
Greatest(S) == CHOOSE j \in S : \A k \in S : j >= k

(***************************************************************************)
(* Regular expressions: syntax trees                                       *)
(***************************************************************************)
\* the upper bound of * and + (no bound)
Unbounded == 0 - 1

Node(t, s, a, lo, hi) == [t |-> t, s |-> s, a |-> a, lo |-> lo, hi |-> hi]

In(S)        == Node("set", S, <<>>, 0, 0)        \* [...]
NotIn(S)     == Node("nset", S, <<>>, 0, 0)       \* [^...]
Cat(a)       == Node("cat", {}, a, 0, 0)          \* r1 r2 ...
Alt(a)       == Node("alt", {}, a, 0, 0)          \* r1 | r2 | ...
Rep(r, lo, hi) == Node("rep", {}, <<r>>, lo, hi)  \* r{lo,hi}, greedy
Star(r)      == Rep(r, 0, Unbounded)
Plus(r)      == Rep(r, 1, Unbounded)
Opt(r)       == Rep(r, 0, 1)
Cap(n, r)    == Node("cap", {}, <<r>>, n, 0)      \* the n-th ( )
CapEnd(n)    == Node("capend", {}, <<>>, n, 0)
WB           == Node("wb", {}, <<>>, 0, 0)        \* \b
BOL          == Node("bol", {}, <<>>, 0, 0)       \* ^
EOL          == Node("eol", {}, <<>>, 0, 0)       \* $
Lit(str)     == Node("lit", {}, <<str>>, 0, 0)    \* literal characters
LitI(str)    == Node("liti", {}, <<toLowerCase(str)>>, 0, 0)  \* under the i flag
Ch(c)        == In({c})
Sp           == In(SpaceCh)                       \* \s
Dg           == In(Digit)                         \* \d
Wd           == In(WordCh)                        \* \w
AnyCh        == NotIn({"\n", "\r"})               \* .

(***************************************************************************)
(* The matcher.  Match(rs, s, i, g) matches the sequence of trees rs at    *)
(* position i of s, trying alternatives and repetition counts in the       *)
(* order of a backtracking engine, and returns its first success.          *)
(***************************************************************************)
\* the capture groups of a match (no RegExp of the source has more than three):
\* <<start, end>> positions, <<0, 0>> for a group that took no part
NoGroups == << <<0, 0>>, <<0, 0>>, <<0, 0>> >>
Fail == [ok |-> FALSE, b |-> 0, e |-> 0, g |-> NoGroups]

IsWordAt(s, i) == i >= 1 /\ i <= Len(s) /\ CharAt(s, i) \in WordCh

\* the length of the longest run of characters of class r (a "set" or "nset"
\* tree) that starts at position i of s
Accepts(r, c) == IF r.t = "set" THEN c \in r.s ELSE c \notin r.s
RunLength(r, s, i) ==
  LET stops == { j \in i..Len(s) : ~Accepts(r, CharAt(s, j)) }
  IN  IF stops = {} THEN Len(s) - i + 1 ELSE Least(stops) - i

RECURSIVE Match(_, _, _, _)
\* a greedy repetition of a one-character class: the longest count first, then
\* one character fewer on every failure of the rest, down to lo
RECURSIVE MatchRun(_, _, _, _, _, _)
MatchRun(rest, s, i, g, n, lo) ==
  IF n < lo THEN Fail
  ELSE LET m == Match(rest, s, i + n, g)
       IN  IF m.ok THEN m ELSE MatchRun(rest, s, i, g, n - 1, lo)

Match(rs, s, i, g) ==
  IF rs = <<>> THEN [ok |-> TRUE, b |-> 0, e |-> i, g |-> g]
  ELSE LET r == Head(rs)
           rest == Tail(rs)
       IN CASE r.t = "set" ->
                 IF i <= Len(s) /\ CharAt(s, i) \in r.s
                 THEN Match(rest, s, i + 1, g) ELSE Fail
            [] r.t = "nset" ->
                 IF i <= Len(s) /\ CharAt(s, i) \notin r.s
                 THEN Match(rest, s, i + 1, g) ELSE Fail
            [] r.t = "lit" ->
                 IF i + Len(r.a[1]) - 1 <= Len(s)
                    /\ SubSeq(s, i, i + Len(r.a[1]) - 1) = r.a[1]
                 THEN Match(rest, s, i + Len(r.a[1]), g) ELSE Fail
            [] r.t = "liti" ->
                 IF i + Len(r.a[1]) - 1 <= Len(s)
                    /\ mapCase(s, i, i + Len(r.a[1]) - 1, FALSE) = r.a[1]
                 THEN Match(rest, s, i + Len(r.a[1]), g) ELSE Fail
            [] r.t = "cat" -> Match(r.a \o rest, s, i, g)
            [] r.t = "alt" ->
                 IF r.a = <<>> THEN Fail
                 ELSE LET first == Match(<<Head(r.a)>> \o rest, s, i, g)
                      IN  IF first.ok THEN first
                          ELSE Match(<<Alt(Tail(r.a))>> \o rest, s, i, g)
            [] r.t = "rep" ->
                 IF r.hi = 0 THEN Match(rest, s, i, g)
                 ELSE IF r.a[1].t \in {"set", "nset"}
                 THEN LET run == RunLength(r.a[1], s, i)
                          n == IF r.hi # Unbounded /\ r.hi < run THEN r.hi ELSE run
                      IN  MatchRun(rest, s, i, g, n, r.lo)
                 ELSE LET lo1 == IF r.lo > 0 THEN r.lo - 1 ELSE 0
                          hi1 == IF r.hi = Unbounded THEN Unbounded ELSE r.hi - 1
                          more == Match(<<r.a[1], Rep(r.a[1], lo1, hi1)>> \o rest, s, i, g)
                      IN  IF more.ok THEN more
                          ELSE IF r.lo = 0 THEN Match(rest, s, i, g) ELSE Fail
            [] r.t = "cap" ->
                 Match(<<r.a[1], CapEnd(r.lo)>> \o rest, s, i,
                       [g EXCEPT ![r.lo] = <<i, 0>>])
            [] r.t = "capend" ->
                 Match(rest, s, i, [g EXCEPT ![r.lo] = <<g[r.lo][1], i>>])
            [] r.t = "wb" ->
                 IF IsWordAt(s, i - 1) # IsWordAt(s, i)
                 THEN Match(rest, s, i, g) ELSE Fail
            [] r.t = "bol" -> IF i = 1 THEN Match(rest, s, i, g) ELSE Fail
            [] r.t = "eol" -> IF i = Len(s) + 1 THEN Match(rest, s, i, g) ELSE Fail

\* the leftmost match of re in s that starts at one of the positions lo..hi
\* (RegExp.exec tries the start positions from left to right)
MatchAtLeast(re, s, hits) ==
  IF hits = {} THEN Fail
  ELSE [Match(<<re>>, s, Least(hits), NoGroups) EXCEPT !.b = Least(hits)]
Search(re, s, from) ==
  MatchAtLeast(re, s, { i \in from..(Len(s) + 1) : Match(<<re>>, s, i, NoGroups).ok })

Exec(re, s) == Search(re, s, 1)                   \* s.match(re), no g flag
Test(re, s) == Exec(re, s).ok                     \* re.test(s)
Whole(m, s) == SubSeq(s, m.b, m.e - 1)            \* match[0]
\* match[k]; a group that did not take part is undefined (here "")
Group(m, s, k) == IF m.g[k][2] = 0 THEN "" ELSE SubSeq(s, m.g[k][1], m.g[k][2] - 1)

\* s.match(re) with the g flag: every match[0], left to right
RECURSIVE MatchAllFrom(_, _, _)
MatchAllNext(re, s, m) ==
  IF ~m.ok THEN <<>>
  ELSE <<Whole(m, s)>> \o MatchAllFrom(re, s, IF m.e > m.b THEN m.e ELSE m.e + 1)
MatchAllFrom(re, s, from) == MatchAllNext(re, s, Search(re, s, from))
MatchAll(re, s) == MatchAllFrom(re, s, 1)

\* s.replace(re, to) without the g flag: the first match only
ReplaceMatch(s, m, to) ==
  IF ~m.ok THEN s ELSE SubSeq(s, 1, m.b - 1) \o to \o SubSeq(s, m.e, Len(s))
ReplaceFirst(re, s, to) == ReplaceMatch(s, Exec(re, s), to)

\* s.replace(re, to) with the g flag
RECURSIVE ReplaceAllFrom(_, _, _, _)
ReplaceAllNext(re, s, to, from, m) ==
  IF ~m.ok THEN SubSeq(s, from, Len(s))
  ELSE SubSeq(s, from, m.b - 1) \o to \o
       (IF m.e > m.b THEN ReplaceAllFrom(re, s, to, m.e)
        ELSE IF m.e > Len(s) THEN ""
        ELSE CharAt(s, m.e) \o ReplaceAllFrom(re, s, to, m.e + 1))
ReplaceAllFrom(re, s, to, from) == ReplaceAllNext(re, s, to, from, Search(re, s, from))
ReplaceAll(re, s, to) == ReplaceAllFrom(re, s, to, 1)

\* String.prototype.trim
Between(s, keep) == IF keep = {} THEN "" ELSE SubSeq(s, Least(keep), Greatest(keep))
trim(s) == Between(s, { i \in 1..Len(s) : CharAt(s, i) \notin SpaceCh })

\* String.prototype.includes
includes(s, sub) ==
  \E i \in 1..(Len(s) - Len(sub) + 1) : SubSeq(s, i, i + Len(sub) - 1) = sub

\* String.prototype.split on one separator character
RECURSIVE splitFrom(_, _, _)
splitAt(s, sep, from, at) ==
  IF at = {} THEN <<SubSeq(s, from, Len(s))>>
  ELSE <<SubSeq(s, from, Least(at) - 1)>> \o splitFrom(s, sep, Least(at) + 1)
splitFrom(s, sep, from) == splitAt(s, sep, from, { i \in from..Len(s) : CharAt(s, i) = sep })
split(s, sep) == splitFrom(s, sep, 1)

\* Array.prototype.join
RECURSIVE join(_, _)
join(a, sep) ==
  IF a = <<>> THEN ""
  ELSE IF Len(a) = 1 THEN a[1]
  ELSE a[1] \o sep \o join(Tail(a), sep)

\* Array.prototype.filter, the callback taking the element and its position
RECURSIVE SelectSeqIdx(_, _, _)
SelectSeqIdx(a, P(_, _), i) ==
  IF i > Len(a) THEN <<>>
  ELSE (IF P(a[i], i) THEN <<a[i]>> ELSE <<>>) \o SelectSeqIdx(a, P, i + 1)

(***************************************************************************)
(* Extracted fields                                                        *)
(***************************************************************************)
Field(l, v, c) == [label |-> l, value |-> v, confidence |-> c]

\* fields.find(f => f.label === l)
HasLabel(fields, l) == \E k \in 1..Len(fields) : fields[k].label = l
\* fields.find(f => f.value === v)
HasValue(fields, v) == \E k \in 1..Len(fields) : fields[k].value = v

\* a variant that leaves the line breaks in place
collapseBlanks(text) == ReplaceAll(Plus(In({" ", "\t"})), text, " ")
\* text.replace(/\s+/g, ' ')
collapseWhitespace(text) == ReplaceAll(Plus(Sp), text, " ")

\* .split('\n').map(line => line.trim()).filter(line => line.length > 0)
trimAll(raw) == [ k \in 1..Len(raw) |-> trim(raw[k]) ]
nonEmpty(l) == Len(l) > 0
splitLines(text) == SelectSeq(trimAll(split(text, "\n")), nonEmpty)

(***************************************************************************)
(* cleanExtractedText                                                      *)
(***************************************************************************)
\* the characters \x20-\x7E (the grave accent cannot be written in a string here)
Printable ==
  Upper \cup Lower \cup Digit \cup CharsOf(" !#$%&'()*+,-./:;<=>?@[]^_{|}~") \cup {"\"", "\\"}

\* words separated by \s+, under the i flag or not, between two \b
WordsI(ws) ==
  Cat(<<WB>> \o [ k \in 1..(2 * Len(ws) - 1) |->
                    IF k % 2 = 1 THEN LitI(ws[(k + 1) \div 2]) ELSE Plus(Sp) ] \o <<WB>>)
Words(ws) ==
  Cat(<<WB>> \o [ k \in 1..(2 * Len(ws) - 1) |->
                    IF k % 2 = 1 THEN Lit(ws[(k + 1) \div 2]) ELSE Plus(Sp) ] \o <<WB>>)
\* pieces separated by \s*, between two \b
Pieces(ws) ==
  Cat(<<WB>> \o [ k \in 1..(2 * Len(ws) - 1) |->
                    IF k % 2 = 1 THEN Lit(ws[(k + 1) \div 2]) ELSE Star(Sp) ] \o <<WB>>)

\* /\b#\s*(\d+)\b/
reHashNumber == Cat(<<WB, Ch("#"), Star(Sp), Cap(1, Plus(Dg)), WB>>)
\* /\b(name|card|licence|address|date|class|fee)\b/i
reDomainKeyword ==
  Cat(<<WB, Cap(1, Alt(<<LitI("name"), LitI("card"), LitI("licence"), LitI("address"),
                         LitI("date"), LitI("class"), LitI("fee")>>)), WB>>)

\* the corrections applied to every line, in the order of the source
lineCorrections ==
  << \* Address corrections
     [re |-> WordsI(<<"Cos", "iy">>), to |-> "Cos iy"],
     [re |-> WordsI(<<"WENTWORTHVILLE">>), to |-> "WENTWORTHVILLE"],
     [re |-> WordsI(<<"CHRISTIAN">>), to |-> "CHRISTIAN"],
     [re |-> WordsI(<<"NORTHMEAD", "AVE">>), to |-> "NORTHMEAD AVE"],
     \* Card number corrections
     [re |-> Pieces(<<"G4", "307", "169">>), to |-> "G4 307 169"],
     [re |-> Pieces(<<"G", "4", "3", "0", "7", "1", "6", "9">>), to |-> "G4 307 169"],
     \* License class corrections
     [re |-> WordsI(<<"LE", "a", "ll", "I", "pe", "Cu", "A", "bi", "fi", "I", "cgi", "i",
                      "Eat", "Cs">>), to |-> "C & Ty A"],
     [re |-> Cat(<<WB, LitI("C"), Star(Sp), Ch("&"), Star(Sp), LitI("Ty"), Star(Sp),
                   LitI("A"), WB>>), to |-> "C & Ty A"],
     [re |-> WordsI(<<"Class", "Gvenice", "sealing", "up", "to">>), to |-> "Class C & Ty A"],
     \* Date corrections
     [re |-> Words(<<"20", "AUG", "1976">>), to |-> "20 AUG 1976"],
     [re |-> Words(<<"19", "JAN", "2029">>), to |-> "19 JAN 2029"],
     [re |-> Words(<<"17", "APR", "1985">>), to |-> "17 APR 1985"],
     [re |-> Words(<<"18", "OCT", "2033">>), to |-> "18 OCT 2033"],
     \* Fee corrections: /\bLicence\s+Fee\s+S?171\s*00\b/i
     [re |-> Cat(<<WB, LitI("Licence"), Plus(Sp), LitI("Fee"), Plus(Sp), Opt(LitI("S")),
                   Lit("171"), Star(Sp), Lit("00"), WB>>), to |-> "Licence Fee $171.00"],
     \* OCR artifacts: /\bElf\s*\}\s*\b/ and /\bUNIT\s+\d+\s+SR\s+P=\s*\b/
     [re |-> Cat(<<WB, Lit("Elf"), Star(Sp), Ch("}"), Star(Sp), WB>>), to |-> ""],
     [re |-> Cat(<<WB, Lit("UNIT"), Plus(Sp), Plus(Dg), Plus(Sp), Lit("SR"), Plus(Sp),
                   Lit("P="), Star(Sp), WB>>), to |-> ""] >>

\* (every operator below looks at the length of the text it is given first:
\* that only fixes the order of evaluation, each step of the source being
\* computed before the next one looks at its result)
RECURSIVE applyCorrections(_, _)
applyNext(next, k) ==
  IF Len(next) = 0 THEN applyCorrections("", k) ELSE applyCorrections(next, k)
applyCorrections(line, k) ==
  IF k > Len(lineCorrections) THEN line
  ELSE applyNext(ReplaceFirst(lineCorrections[k].re, line, lineCorrections[k].to), k + 1)

NoiseLength == 100

\* License document specific corrections
correctState(line) ==
  IF includes(toLowerCase(line), "new") /\ includes(toLowerCase(line), "wales")
  THEN ReplaceFirst(WordsI(<<"New", "South", "Wales", "Australia">>),
         ReplaceFirst(WordsI(<<"New", "Bouth", "Wales">>), line, "New South Wales"),
         "New South Wales, Australia")
  ELSE line

\* Name corrections (index is 1-based here: index - 1 < 3)
correctNames(lines, index, corrected) ==
  IF Len(corrected) = 0 THEN ""
  ELSE IF index - 1 < 3 \/ (index > 1 /\ includes(toLowerCase(lines[index - 1]), "card"))
  THEN ReplaceFirst(WordsI(<<"MARIAM", "RIZWAN", "KHAN">>),
         ReplaceFirst(WordsI(<<"GAUSWAMI", "VEJAY", "GIR">>),
           ReplaceFirst(WordsI(<<"Bhupendragdiri">>), corrected, "Bhupendra Giri"),
           "GAUSWAMI VEJAY GIR"),
         "MARIAM RIZWAN KHAN")
  ELSE corrected

correctAll(corrected) == IF Len(corrected) = 0 THEN "" ELSE applyCorrections(corrected, 1)

\* corrected.replace(/\b#\s*(\d+)\b/, '#$1')
joinHashMatch(corrected, hash) ==
  IF hash.ok
  THEN SubSeq(corrected, 1, hash.b - 1) \o "#" \o Group(hash, corrected, 1)
       \o SubSeq(corrected, hash.e, Len(corrected))
  ELSE corrected
joinHash(corrected) ==
  IF Len(corrected) = 0 THEN "" ELSE joinHashMatch(corrected, Exec(reHashNumber, corrected))

\* Remove page 2 noise (long meaningless strings)
dropNoise(corrected) ==
  IF Len(corrected) > NoiseLength /\ ~Test(reDomainKeyword, corrected) THEN "" ELSE corrected

correctLine(lines, index) ==
  dropNoise(joinHash(correctAll(correctNames(lines, index, correctState(lines[index])))))

removeNonPrintable(collapsed) ==
  IF Len(collapsed) = 0 THEN "" ELSE ReplaceAll(NotIn(Printable), collapsed, "")
trimText(text) == IF Len(text) = 0 THEN "" ELSE trim(text)
\* cleaned.split('\n').map(line => line.trim()).filter(line => line.length > 0)
cleanedLines(cleaned) == IF Len(cleaned) = 0 THEN <<>> ELSE splitLines(cleaned)
correctLines(lines) ==
  SelectSeq([ k \in 1..Len(lines) |-> correctLine(lines, k) ], nonEmpty)
joinLines(correctedLines) ==
  IF Len(correctedLines) = 0 THEN "" ELSE join(correctedLines, "\n")
\* .replace(/[^\w\s.,\-/&$]/g, '')
removeDisallowed(finalText) ==
  IF Len(finalText) = 0 THEN ""
  ELSE ReplaceAll(NotIn(WordCh \cup SpaceCh \cup {".", ",", "-", "/", "&", "$"}), finalText, "")
\* .replace(/\s+/g, ' ')
respace(finalText) == IF Len(finalText) = 0 THEN "" ELSE collapseWhitespace(finalText)

cleanExtractedText(text) ==
  trimText(respace(removeDisallowed(joinLines(correctLines(cleanedLines(
    trimText(removeNonPrintable(collapseWhitespace(text)))))))))

(***************************************************************************)
(* detectDocumentType                                                      *)
(***************************************************************************)
\* a variant that looks for the passport keywords before the invoice keywords
typeOfTextPassportFirst(fullText) ==
  IF includes(fullText, "licence") \/ includes(fullText, "license")
     \/ includes(fullText, "driver") THEN "license"
  ELSE IF includes(fullText, "passport") \/ includes(fullText, "travel document")
       THEN "passport"
  ELSE IF includes(fullText, "invoice") \/ includes(fullText, "receipt")
          \/ includes(fullText, "total") \/ includes(fullText, "amount") THEN "invoice"
  ELSE IF includes(fullText, "card") \/ includes(fullText, "id")
          \/ includes(fullText, "identification") THEN "id"
  ELSE "generic"
typeOfText(fullText) ==
  IF includes(fullText, "licence") \/ includes(fullText, "license")
     \/ includes(fullText, "driver") THEN "license"
  ELSE IF includes(fullText, "invoice") \/ includes(fullText, "receipt")
          \/ includes(fullText, "total") \/ includes(fullText, "amount") THEN "invoice"
  ELSE IF includes(fullText, "passport") \/ includes(fullText, "travel document")
       THEN "passport"
  ELSE IF includes(fullText, "card") \/ includes(fullText, "id")
          \/ includes(fullText, "identification") THEN "id"
  ELSE "generic"
detectDocumentType(lines) == typeOfText(toLowerCase(join(lines, " ")))

(***************************************************************************)
(* extractInvoiceFields                                                    *)
(***************************************************************************)
\* /\b(?:invoice|receipt)\s*(?:no\.?|number|#)?\s*([A-Z0-9-]+)\b/i
reInvoiceNumber ==
  Cat(<<WB, Alt(<<LitI("invoice"), LitI("receipt")>>), Star(Sp),
        Opt(Alt(<<Cat(<<LitI("no"), Opt(Ch("."))>>), LitI("number"), Ch("#")>>)),
        Star(Sp), Cap(1, Plus(In(BothCases(Upper \cup Digit \cup {"-"})))), WB>>)

\* /\b(?:total|amount|sum)\s*\$?\s*(\d+(?:\.\d{2})?)\b/i
reTotalAmount ==
  Cat(<<WB, Alt(<<LitI("total"), LitI("amount"), LitI("sum")>>), Star(Sp),
        Opt(Ch("$")), Star(Sp),
        Cap(1, Cat(<<Plus(Dg), Opt(Cat(<<Ch("."), Rep(Dg, 2, 2)>>))>>)), WB>>)

\* /\b(\d{1,2}[/-]\d{1,2}[/-]\d{2,4})\b/
reNumericDate ==
  Cat(<<WB, Cap(1, Cat(<<Rep(Dg, 1, 2), In({"/", "-"}), Rep(Dg, 1, 2),
                         In({"/", "-"}), Rep(Dg, 2, 4)>>)), WB>>)

\* if (match && !fields.find(f => f.label === label)) fields.push({label, value, confidence})
pushOnce(fields, found, label, value, confidence) ==
  IF found /\ ~HasLabel(fields, label) THEN Append(fields, Field(label, value, confidence))
  ELSE fields
pushInvoiceNumber(fields, line, invoiceMatch) ==
  pushOnce(fields, invoiceMatch.ok, "Invoice Number", Group(invoiceMatch, line, 1), 90)
pushTotalAmount(fields, line, totalMatch) ==
  pushOnce(fields, totalMatch.ok, "Total Amount", "$" \o Group(totalMatch, line, 1), 95)
pushDate(fields, line, dateMatch) ==
  pushOnce(fields, dateMatch.ok, "Date", Group(dateMatch, line, 1), 85)

invoiceLine(fields, line) ==
  pushDate(pushTotalAmount(pushInvoiceNumber(fields, line, Exec(reInvoiceNumber, line)),
                           line, Exec(reTotalAmount, line)),
           line, Exec(reNumericDate, line))

RECURSIVE invoiceLoop(_, _, _)
invoiceLoop(lines, i, fields) ==
  IF i > Len(lines) THEN fields
  ELSE invoiceLoop(lines, i + 1, invoiceLine(fields, lines[i]))

extractInvoiceFields(lines) == invoiceLoop(lines, 1, <<>>)

(***************************************************************************)
(* extractPassportFields                                                   *)
(***************************************************************************)
\* /\b([A-Z]\d{7,9})\b/
rePassportNumber == Cat(<<WB, Cap(1, Cat(<<In(Upper), Rep(Dg, 7, 9)>>)), WB>>)

\* [A-Z][a-z]+
reCapWord == Cat(<<In(Upper), Plus(In(Lower))>>)
\* /\b([A-Z][a-z]+(?:\s+[A-Z][a-z]+){1,3})\b/
reName ==
  Cat(<<WB, Cap(1, Cat(<<reCapWord, Rep(Cat(<<Plus(Sp), reCapWord>>), 1, 3)>>)), WB>>)

pushPassportNumber(fields, line, passportMatch) ==
  pushOnce(fields, passportMatch.ok, "Passport Number", Group(passportMatch, line, 1), 95)
pushPassportName(fields, line, nameMatch) ==
  pushOnce(fields, nameMatch.ok, "Name", Group(nameMatch, line, 1), 90)
pushPassportDate(fields, line, dateMatch) ==
  IF ~dateMatch.ok THEN fields
  ELSE IF includes(toLowerCase(line), "issue") /\ ~HasLabel(fields, "Issue Date")
       THEN Append(fields, Field("Issue Date", Group(dateMatch, line, 1), 90))
  ELSE IF includes(toLowerCase(line), "expiry") /\ ~HasLabel(fields, "Expiry Date")
       THEN Append(fields, Field("Expiry Date", Group(dateMatch, line, 1), 90))
  ELSE fields

passportLine(fields, line) ==
  pushPassportDate(pushPassportName(pushPassportNumber(fields, line,
                                                       Exec(rePassportNumber, line)),
                                    line, Exec(reName, line)),
                   line, Exec(reNumericDate, line))

RECURSIVE passportLoop(_, _, _)
passportLoop(lines, i, fields) ==
  IF i > Len(lines) THEN fields
  ELSE passportLoop(lines, i + 1, passportLine(fields, lines[i]))

extractPassportFields(lines) == passportLoop(lines, 1, <<>>)

(***************************************************************************)
(* extractGenericFields                                                    *)
(***************************************************************************)
\* /^([^:]+):\s*(.+)$/i
reLabelValue ==
  Cat(<<BOL, Cap(1, Plus(NotIn({":"}))), Ch(":"), Star(Sp), Cap(2, Plus(AnyCh)), EOL>>)

\* /^\d+$/
reAllDigits == Cat(<<BOL, Plus(Dg), EOL>>)
\* /^[^\w\s]+$/
reAllPunct == Cat(<<BOL, Plus(NotIn(WordCh \cup SpaceCh)), EOL>>)

artifacts == <<"image", "scan", "page", "document", "photo", "picture", "file">>

isMeaningfulField(label, value) ==
  IF Len(label) < 2 \/ Len(label) > 50 \/ Len(value) < 1 \/ Len(value) > 200 THEN FALSE
  ELSE IF Test(reAllDigits, label) \/ Len(label) = 1 THEN FALSE
  ELSE IF Test(reAllPunct, label) \/ Test(reAllPunct, value) THEN FALSE
  ELSE IF \E k \in 1..Len(artifacts) : includes(toLowerCase(label), artifacts[k]) THEN FALSE
  ELSE TRUE

\* .replace(/\b\w/g, l => l.toUpperCase())
RECURSIVE titleCaseRange(_, _, _)
titleCaseRange(s, lo, hi) ==
  IF lo > hi THEN ""
  ELSE IF lo = hi
       THEN (IF IsWordAt(s, lo) /\ ~IsWordAt(s, lo - 1)
             THEN upperChar(CharAt(s, lo)) ELSE CharAt(s, lo))
  ELSE LET mid == (lo + hi) \div 2
       IN  titleCaseRange(s, lo, mid) \o titleCaseRange(s, mid + 1, hi)

titleCase(s) == titleCaseRange(s, 1, Len(s))
cleanFieldLabel(label) ==
  ReplaceAll(Plus(Sp),
    titleCase(ReplaceAll(Alt(<<Cat(<<BOL, Plus(Sp)>>), Cat(<<Plus(Sp), EOL>>)>>),
                         ReplaceFirst(Cat(<<Ch(":"), EOL>>), label, ""), "")),
    " ")

\* /\b[\w.-]+@[\w.-]+\.\w+\b/
reEmail ==
  Cat(<<WB, Plus(In(WordCh \cup {".", "-"})), Ch("@"),
        Plus(In(WordCh \cup {".", "-"})), Ch("."), Plus(Wd), WB>>)

\* /\b(\+?\d{1,3}[-.\s]?)?\(?\d{3}\)?[-.\s]?\d{3}[-.\s]?\d{4}\b/
rePhoneSep == Opt(In({"-", ".", " ", "\t", "\n", "\r"}))
rePhone ==
  Cat(<<WB, Opt(Cap(1, Cat(<<Opt(Ch("+")), Rep(Dg, 1, 3), rePhoneSep>>))),
        Opt(Ch("(")), Rep(Dg, 3, 3), Opt(Ch(")")), rePhoneSep,
        Rep(Dg, 3, 3), rePhoneSep, Rep(Dg, 4, 4), WB>>)

\* /\bhttps?:\/\/[^\s]+\b/
reUrl ==
  Cat(<<WB, Lit("http"), Opt(Ch("s")), Lit("://"), Plus(NotIn(SpaceCh)), WB>>)

pushEmail(fields, line, emailMatch) ==
  pushOnce(fields, emailMatch.ok, "Email", Whole(emailMatch, line), 90)
pushPhone(fields, line, phoneMatch) ==
  pushOnce(fields, phoneMatch.ok, "Phone", Whole(phoneMatch, line), 85)
pushWebsite(fields, line, urlMatch) ==
  pushOnce(fields, urlMatch.ok, "Website", Whole(urlMatch, line), 85)

extractStandaloneFields(line, fields) ==
  pushWebsite(pushPhone(pushEmail(fields, line, Exec(reEmail, line)),
                        line, Exec(rePhone, line)),
              line, Exec(reUrl, line))

\* a variant that gives a label/value pair the confidence 60
pushLabelValueLow(fields, found, label, value) ==
  IF found /\ isMeaningfulField(label, value)
  THEN Append(fields, Field(cleanFieldLabel(label), value, 60))
  ELSE fields
pushLabelValue(fields, found, label, value) ==
  IF found /\ isMeaningfulField(label, value)
  THEN Append(fields, Field(cleanFieldLabel(label), value, 80))
  ELSE fields
pushLabelValueMatch(fields, line, labelValueMatch) ==
  pushLabelValue(fields, labelValueMatch.ok, trim(Group(labelValueMatch, line, 1)),
                 trim(Group(labelValueMatch, line, 2)))

genericLine(fields, line) ==
  extractStandaloneFields(line, pushLabelValueMatch(fields, line, Exec(reLabelValue, line)))

RECURSIVE genericLoop(_, _, _)
genericLoop(lines, i, fields) ==
  IF i > Len(lines) THEN fields
  ELSE genericLoop(lines, i + 1, genericLine(fields, lines[i]))

extractGenericFields(lines) == genericLoop(lines, 1, <<>>)

(***************************************************************************)
(* analyzeDocumentStructure                                                *)
(***************************************************************************)
Letter == Upper \cup Lower
reStreetSuffix ==
  Alt(<<LitI("ave"), LitI("road"), LitI("street"), LitI("drive"), LitI("lane"),
        LitI("way"), LitI("place"), LitI("close"), LitI("court"), LitI("crescent"),
        LitI("st")>>)

\* /\b\d+\s+[a-zA-Z\s]+(?:ave|road|street|drive|lane|way|place|close|court|crescent|st)\b/i
reAddressLineStreet ==
  Cat(<<WB, Plus(Dg), Plus(Sp), Plus(In(Letter \cup SpaceCh)), reStreetSuffix, WB>>)
\* /\b[a-zA-Z\s]+NSW\s+\d{4}\b/i
reAddressLineSuburb ==
  Cat(<<WB, Plus(In(Letter \cup SpaceCh)), LitI("NSW"), Plus(Sp), Rep(Dg, 4, 4), WB>>)
\* /\bC\s*&\s*[A-Z][a-z]*\s*[A-Z]\b/i
reClassLine ==
  Cat(<<WB, LitI("C"), Star(Sp), Ch("&"), Star(Sp), In(Letter), Star(In(Letter)),
        Star(Sp), In(Letter), WB>>)
\* /\b\d{1,2}\s+[a-z]{3}\s+\d{4}\b/i
reDateLine ==
  Cat(<<WB, Rep(Dg, 1, 2), Plus(Sp), Rep(In(Letter), 3, 3), Plus(Sp), Rep(Dg, 4, 4), WB>>)
\* /\$\d+(?:\.\d{2})?/
reDollar == Cat(<<Ch("$"), Plus(Dg), Opt(Cat(<<Ch("."), Rep(Dg, 2, 2)>>))>>)

Min2(a, b) == IF a < b THEN a ELSE b
Max2(a, b) == IF a > b THEN a ELSE b

\* the lines at distance 1 and 2 of line index (its context window)
lineContext(lines, index) ==
  LET lo == Max2(1, index - 2)
      hi == Min2(Len(lines), index + 2)
  IN  SubSeq(lines, lo, index - 1) \o SubSeq(lines, index + 1, hi)

SelectLines(lines, P(_, _)) == SelectSeqIdx(lines, P, 1)

analyzeDocumentStructure(lines) ==
  [ headerSection |-> SelectLines(lines, LAMBDA l, k : k - 1 < 3),
    cardSection |-> SelectLines(lines, LAMBDA l, k :
        LET lowerLine == toLowerCase(l)
        IN  includes(lowerLine, "card") \/ includes(lowerLine, "licence")
            \/ includes(lowerLine, "number")),
    addressSection |-> SelectLines(lines, LAMBDA l, k :
        Test(reAddressLineStreet, l) \/ Test(reAddressLineSuburb, l)),
    classSection |-> SelectLines(lines, LAMBDA l, k :
        includes(toLowerCase(l), "class") \/ Test(reClassLine, l)),
    dateSection |-> SelectLines(lines, LAMBDA l, k :
        LET lowerLine == toLowerCase(l)
        IN  Test(reDateLine, l) \/ includes(lowerLine, "birth")
            \/ includes(lowerLine, "expir") \/ includes(lowerLine, "date")),
    feeSection |-> SelectLines(lines, LAMBDA l, k :
        includes(toLowerCase(l), "fee") \/ Test(reDollar, l)),
    allText |-> toLowerCase(join(lines, " ")),
    lineContexts |-> [ k \in 1..Len(lines) |->
        [line |-> lines[k], context |-> lineContext(lines, k), index |-> k - 1] ] ]

(***************************************************************************)
(* extractCardNumber                                                       *)
(***************************************************************************)
\* /^[A-Z]\d{6,8}$/
reCardLetterDigits == Cat(<<BOL, In(Upper), Rep(Dg, 6, 8), EOL>>)
\* /^\d{6,9}$/
reCardDigits == Cat(<<BOL, Rep(Dg, 6, 9), EOL>>)
\* /^\d{4,}\s+\d{2,}$/
reCardGrouped ==
  Cat(<<BOL, Rep(Dg, 4, Unbounded), Plus(Sp), Rep(Dg, 2, Unbounded), EOL>>)

isValidClean(clean, cardNumber) ==
  IF Test(reCardLetterDigits, clean) THEN TRUE
  ELSE IF Test(reCardDigits, clean) THEN TRUE
  ELSE IF Test(reCardGrouped, cardNumber) THEN TRUE
  ELSE FALSE
isValidCardNumber(cardNumber) ==
  isValidClean(ReplaceAll(Plus(Sp), cardNumber, ""), cardNumber)

cardPatterns ==
  << \* /\b([A-Z]\d{1,3}\s+\d{3}\s+\d{3})\b/
     Cat(<<WB, Cap(1, Cat(<<In(Upper), Rep(Dg, 1, 3), Plus(Sp), Rep(Dg, 3, 3),
                            Plus(Sp), Rep(Dg, 3, 3)>>)), WB>>),
     \* /\b([A-Z]\s*\d{1,3}\s*\d{3}\s*\d{3})\b/
     Cat(<<WB, Cap(1, Cat(<<In(Upper), Star(Sp), Rep(Dg, 1, 3), Star(Sp), Rep(Dg, 3, 3),
                            Star(Sp), Rep(Dg, 3, 3)>>)), WB>>),
     \* /\b([A-Z]\d{7})\b/
     Cat(<<WB, Cap(1, Cat(<<In(Upper), Rep(Dg, 7, 7)>>)), WB>>),
     \* /\b(\d{6,9})\b/
     Cat(<<WB, Cap(1, Rep(Dg, 6, 9)), WB>>) >>

\* the two nested for loops: the first (pattern, line) pair, in loop order,
\* whose match passes isValidCardNumber; "" when there is none
RECURSIVE cardScan(_, _, _)
cardChoose(section, p, l, found, raw) ==
  IF found /\ isValidCardNumber(raw) THEN raw ELSE cardScan(section, p, l + 1)
cardMatch(section, p, l, match) ==
  cardChoose(section, p, l, match.ok,
             trim(ReplaceAll(Plus(Sp), Group(match, section[l], 1), " ")))
cardScan(section, p, l) ==
  IF p > Len(cardPatterns) THEN ""
  ELSE IF l > Len(section) THEN cardScan(section, p + 1, 1)
  ELSE cardMatch(section, p, l, Exec(cardPatterns[p], section[l]))

\* fields.push({label, value, confidence}) when the scan found a value
pushFound(fields, label, value, confidence) ==
  IF value # "" THEN Append(fields, Field(label, value, confidence)) ELSE fields

extractCardNumber(fields, structure) ==
  IF HasLabel(fields, "Card Number") THEN fields
  ELSE pushFound(fields, "Card Number", cardScan(structure.cardSection, 1, 1), 95)

(***************************************************************************)
(* extractName                                                             *)
(***************************************************************************)
commonWords ==
  <<"New", "South", "Wales", "Australia", "Transport", "NSW", "Licence", "Class",
    "Date", "Birth", "Expiry", "Number", "Card", "Address", "Road", "Avenue",
    "Street", "Drive", "Lane", "Way", "Place", "Close", "Court", "Crescent",
    "The", "And", "For", "With", "From", "This", "That", "Will", "Have", "Been">>

isCommonWord(text) == \E k \in 1..Len(commonWords) : includes(text, commonWords[k])

\* /^[A-Z][a-z]+(?:\s+[A-Z][a-z]+)+$/
reNameShape == Cat(<<BOL, reCapWord, Plus(Cat(<<Plus(Sp), reCapWord>>)), EOL>>)

\* parts.length >= 2 && parts.every(part => part.length >= 2)
validParts(parts) == Len(parts) >= 2 /\ \A k \in 1..Len(parts) : Len(parts[k]) >= 2
isValidName(name) ==
  IF isCommonWord(name) THEN FALSE
  ELSE IF Len(name) < 5 \/ Len(name) > 50 THEN FALSE
  ELSE IF ~Test(reNameShape, name) THEN FALSE
  ELSE validParts(split(name, " "))

RECURSIVE nameScan(_, _)
nameChoose(searchSections, l, found, name) ==
  IF found /\ Len(name) > 4 /\ isValidName(name) THEN name
  ELSE nameScan(searchSections, l + 1)
nameMatched(searchSections, l, nameMatch) ==
  nameChoose(searchSections, l, nameMatch.ok, Group(nameMatch, searchSections[l], 1))
nameScan(searchSections, l) ==
  IF l > Len(searchSections) THEN ""
  ELSE nameMatched(searchSections, l, Exec(reName, searchSections[l]))

extractName(fields, structure) ==
  IF HasLabel(fields, "Name") THEN fields
  ELSE pushFound(fields, "Name",
                 nameScan(structure.cardSection \o structure.headerSection, 1), 97)

(***************************************************************************)
(* extractAddress                                                          *)
(***************************************************************************)
\* /\b(\d+)\s+([A-Z][a-z]+(?:\s+[A-Z][a-z]+)*)\s+(AVE|ROAD|...|ST)\b/i
reStreet ==
  Cat(<<WB, Cap(1, Plus(Dg)), Plus(Sp),
        Cap(2, Cat(<<In(Letter), Plus(In(Letter)),
                     Star(Cat(<<Plus(Sp), In(Letter), Plus(In(Letter))>>))>>)),
        Plus(Sp), Cap(3, reStreetSuffix), WB>>)
\* /\b([A-Z][a-z]+(?:\s+[A-Z][a-z]+)*)\s+NSW\s+(\d{4})\b/
reSuburb ==
  Cat(<<WB, Cap(1, Cat(<<reCapWord, Star(Cat(<<Plus(Sp), reCapWord>>))>>)),
        Plus(Sp), Lit("NSW"), Plus(Sp), Cap(2, Rep(Dg, 4, 4)), WB>>)
\* /\b\d+\s+[A-Z][a-z]+\s+(?:AVE|ROAD|...|ST)\b/i
reValidStreet ==
  Cat(<<WB, Plus(Dg), Plus(Sp), In(Letter), Plus(In(Letter)), Plus(Sp),
        reStreetSuffix, WB>>)
\* /\bNSW\s+\d{4}\b/
reValidPostcode == Cat(<<WB, Lit("NSW"), Plus(Sp), Rep(Dg, 4, 4), WB>>)

isValidAddress(address) ==
  Len(address) > 10 /\ Test(reValidStreet, address) /\ Test(reValidPostcode, address)

streetPart(line, streetMatch) ==
  IF streetMatch.ok
  THEN <<Group(streetMatch, line, 1) \o " " \o Group(streetMatch, line, 2)
         \o " " \o Group(streetMatch, line, 3)>>
  ELSE <<>>
suburbPart(line, suburbMatch) ==
  IF suburbMatch.ok
  THEN <<Group(suburbMatch, line, 1) \o " NSW " \o Group(suburbMatch, line, 2)>>
  ELSE <<>>

RECURSIVE addressParts(_, _)
addressParts(section, l) ==
  IF l > Len(section) THEN <<>>
  ELSE streetPart(section[l], Exec(reStreet, section[l]))
       \o suburbPart(section[l], Exec(reSuburb, section[l]))
       \o addressParts(section, l + 1)

pushAddress(fields, parts, fullAddress) ==
  IF Len(parts) > 0 /\ isValidAddress(fullAddress)
  THEN Append(fields, Field("Address", fullAddress, 95))
  ELSE fields
joinAddress(fields, parts) == pushAddress(fields, parts, join(parts, ", "))

extractAddress(fields, structure) ==
  IF HasLabel(fields, "Address") THEN fields
  ELSE joinAddress(fields, addressParts(structure.addressSection, 1))

(***************************************************************************)
(* extractLicenseClass                                                     *)
(***************************************************************************)
validClasses == <<"C", "C & Ty A", "CA", "MR", "HR", "HC", "MC">>

isValidLicenseClass(classValue) ==
  LET normalized == toUpperCase(ReplaceAll(Plus(Sp), classValue, " "))
  IN  \E k \in 1..Len(validClasses) :
        includes(normalized, ReplaceAll(Plus(Sp), validClasses[k], " "))

classPatterns ==
  << \* /\bClass\s+([A-Z]\s*&\s*[A-Z][a-z]*\s*[A-Z]|[A-Z]+(?:\s+[A-Z]+)*)\b/i
     Cat(<<WB, LitI("Class"), Plus(Sp),
           Cap(1, Alt(<<Cat(<<In(Letter), Star(Sp), Ch("&"), Star(Sp), In(Letter),
                              Star(In(Letter)), Star(Sp), In(Letter)>>),
                        Cat(<<Plus(In(Letter)),
                              Star(Cat(<<Plus(Sp), Plus(In(Letter))>>))>>)>>)), WB>>),
     \* /\b([A-Z]\s*&\s*[A-Z][a-z]*\s*[A-Z])\b/
     Cat(<<WB, Cap(1, Cat(<<In(Upper), Star(Sp), Ch("&"), Star(Sp), In(Upper),
                            Star(In(Lower)), Star(Sp), In(Upper)>>)), WB>>),
     \* /\b(C\s*&\s*Ty\s*A)\b/i
     Cat(<<WB, Cap(1, Cat(<<LitI("C"), Star(Sp), Ch("&"), Star(Sp), LitI("Ty"),
                            Star(Sp), LitI("A")>>)), WB>>) >>

\* /\b([A-Z]{1,2})\b/
reSingleClass == Cat(<<WB, Cap(1, Rep(In(Upper), 1, 2)), WB>>)

\* the loops over the class section lines and, per line, the patterns: the
\* first match passing isValidLicenseClass; "" when there is none
RECURSIVE classScan(_, _, _)
classChoose(section, l, p, found, value) ==
  IF found /\ isValidLicenseClass(value) THEN trim(ReplaceAll(Plus(Sp), value, " "))
  ELSE classScan(section, l, p + 1)
classMatch(section, l, p, match) ==
  classChoose(section, l, p, match.ok, Group(match, section[l], 1))
classScan(section, l, p) ==
  IF l > Len(section) THEN ""
  ELSE IF p > Len(classPatterns) THEN classScan(section, l + 1, 1)
  ELSE classMatch(section, l, p, Exec(classPatterns[p], section[l]))

\* Fallback: look for single letter classes in the document text
pushSingleClass(fields, found, single) ==
  IF found /\ isValidLicenseClass(single)
  THEN Append(fields, Field("License Class", single, 85))
  ELSE fields
singleClass(fields, allText, singleClassMatch) ==
  pushSingleClass(fields, singleClassMatch.ok, Group(singleClassMatch, allText, 1))
pushClass(fields, classValue, allText) ==
  IF classValue # "" THEN Append(fields, Field("License Class", classValue, 96))
  ELSE singleClass(fields, allText, Exec(reSingleClass, allText))

extractLicenseClass(fields, structure) ==
  IF HasLabel(fields, "License Class") THEN fields
  ELSE pushClass(fields, classScan(structure.classSection, 1, 1), structure.allText)

(***************************************************************************)
(* extractDates                                                            *)
(***************************************************************************)
\* /\b(\d{1,2}\s+[A-Z]{3}\s+\d{4})\b/gi
reDate ==
  Cat(<<WB, Cap(1, Cat(<<Rep(Dg, 1, 2), Plus(Sp), Rep(In(Letter), 3, 3), Plus(Sp),
                         Rep(Dg, 4, 4)>>)), WB>>)

datesOfLine(line, dateMatches) ==
  [ k \in 1..Len(dateMatches) |->
      [date |-> toUpperCase(dateMatches[k]), context |-> toLowerCase(line)] ]
RECURSIVE collectDates(_, _)
collectDates(section, l) ==
  IF l > Len(section) THEN <<>>
  ELSE datesOfLine(section[l], MatchAll(reDate, section[l])) \o collectDates(section, l + 1)

\* a variant that keeps a date as often as it was found
keepAllDates(dates) == dates
\* filter((item, index, self) => index === self.findIndex(t => t.date === item.date))
uniqueByDate(dates) ==
  SelectSeqIdx(dates, LAMBDA d, k : \A j \in 1..(k - 1) : dates[j].date # d.date, 1)

\* a variant that does not look whether the label is already there
assignDateUnguarded(fields, d) ==
  IF includes(d.context, "birth")
  THEN Append(fields, Field("Date of Birth", d.date, 98))
  ELSE IF includes(d.context, "expir") \/ includes(d.context, "valid")
       THEN Append(fields, Field("Expiry Date", d.date, 98))
  ELSE fields
\* Assign dates based on context
assignDate(fields, d) ==
  IF includes(d.context, "birth") /\ ~HasLabel(fields, "Date of Birth")
  THEN Append(fields, Field("Date of Birth", d.date, 98))
  ELSE IF (includes(d.context, "expir") \/ includes(d.context, "valid"))
          /\ ~HasLabel(fields, "Expiry Date")
       THEN Append(fields, Field("Expiry Date", d.date, 98))
  ELSE fields
RECURSIVE assignByContext(_, _, _)
assignByContext(uniqueDates, k, fields) ==
  IF k > Len(uniqueDates) THEN fields
  ELSE assignByContext(uniqueDates, k + 1, assignDate(fields, uniqueDates[k]))

\* Fallback: assign remaining dates by position
pushFirstRemaining(fields, remainingDates) ==
  IF Len(remainingDates) >= 1 /\ ~HasLabel(fields, "Date of Birth")
  THEN Append(fields, Field("Date of Birth", remainingDates[1].date, 90))
  ELSE fields
\* a variant that gives the Expiry Date the first remaining date still free
pushNextRemaining(fields, remainingDates) ==
  IF SelectSeq(remainingDates, LAMBDA d : ~HasValue(fields, d.date)) # <<>>
     /\ ~HasLabel(fields, "Expiry Date")
  THEN Append(fields, Field("Expiry Date",
                SelectSeq(remainingDates, LAMBDA d : ~HasValue(fields, d.date))[1].date, 90))
  ELSE fields
pushSecondRemaining(fields, remainingDates) ==
  IF Len(remainingDates) >= 2 /\ ~HasLabel(fields, "Expiry Date")
  THEN Append(fields, Field("Expiry Date", remainingDates[2].date, 90))
  ELSE fields
assignByPosition(fields, remainingDates) ==
  pushSecondRemaining(pushFirstRemaining(fields, remainingDates), remainingDates)
\* uniqueDates.filter(({ date }) => !fields.find(f => f.value === date))
remaining(fields, uniqueDates) ==
  SelectSeq(uniqueDates, LAMBDA d : ~HasValue(fields, d.date))
assignRemaining(fields, uniqueDates) ==
  assignByPosition(fields, remaining(fields, uniqueDates))
assignDates(fields, uniqueDates) ==
  assignRemaining(assignByContext(uniqueDates, 1, fields), uniqueDates)

extractDates(fields, structure) ==
  assignDates(fields, uniqueByDate(collectDates(structure.dateSection, 1)))

(***************************************************************************)
(* extractLicenseFee                                                       *)
(***************************************************************************)
\* parseFloat of a decimal numeral without exponent: the longest prefix
\* [+-]? digits [. digits]; NaN when that prefix holds no digit
reFloatPrefix ==
  Cat(<<BOL, Star(Sp), Opt(Cap(1, In({"+", "-"}))), Cap(2, Star(Dg)),
        Opt(Cat(<<Ch("."), Cap(3, Star(Dg))>>))>>)

stripZeros(d) ==
  LET nz == { i \in 1..Len(d) : CharAt(d, i) # "0" }
  IN  IF nz = {} THEN "" ELSE SubSeq(d, Least(nz), Len(d))

floatOf(str, m) ==
  [ nan |-> ~m.ok \/ (Group(m, str, 2) = "" /\ Group(m, str, 3) = ""),
    neg |-> Group(m, str, 1) = "-",
    int |-> stripZeros(Group(m, str, 2)),
    fracZero |-> stripZeros(Group(m, str, 3)) = "" ]
parseFloat(str) == floatOf(str, Exec(reFloatPrefix, str))

\* num > 0 && num < 10000
inFeeRange(num) ==
  ~num.nan /\ ~num.neg /\ (num.int # "" \/ ~num.fracZero) /\ Len(num.int) <= 4
isValidAmount(amount) == inFeeRange(parseFloat(amount))

\* /\bLicence\s+Fee\s+\$?(\d+(?:\.\d{2})?)\b/i
reLicenceFee ==
  Cat(<<WB, LitI("Licence"), Plus(Sp), LitI("Fee"), Plus(Sp), Opt(Ch("$")),
        Cap(1, Cat(<<Plus(Dg), Opt(Cat(<<Ch("."), Rep(Dg, 2, 2)>>))>>)), WB>>)

RECURSIVE feeScan(_, _)
feeChoose(section, l, found, amount) ==
  IF found /\ isValidAmount(amount) THEN amount ELSE feeScan(section, l + 1)
feeMatched(section, l, feeMatch) ==
  feeChoose(section, l, feeMatch.ok, Group(feeMatch, section[l], 1))
feeScan(section, l) ==
  IF l > Len(section) THEN ""
  ELSE feeMatched(section, l, Exec(reLicenceFee, section[l]))

pushFee(fields, amount) ==
  IF amount # "" THEN Append(fields, Field("License Fee", "$" \o amount, 97)) ELSE fields
extractLicenseFee(fields, structure) ==
  IF HasLabel(fields, "License Fee") THEN fields
  ELSE pushFee(fields, feeScan(structure.feeSection, 1))

(***************************************************************************)
(* validateAndFilterFields, extractLicenseFields, extractFields            *)
(***************************************************************************)
minConfidence == 75

\* /\b\d{1,2}\s+[A-Z]{3}\s+\d{4}\b/
reValidDate ==
  Cat(<<WB, Rep(Dg, 1, 2), Plus(Sp), Rep(In(Upper), 3, 3), Plus(Sp), Rep(Dg, 4, 4), WB>>)

\* String.prototype.replace with a string pattern: its first occurrence
removeFirst(s, c) ==
  IF \E i \in 1..Len(s) : CharAt(s, i) = c
  THEN LET i == CHOOSE k \in 1..Len(s) :
                  CharAt(s, k) = c /\ \A j \in 1..(k - 1) : CharAt(s, j) # c
       IN  SubSeq(s, 1, i - 1) \o SubSeq(s, i + 1, Len(s))
  ELSE s

\* a variant whose floor is above the confidence of some extractors
keepFieldAbove95(field) ==
  IF field.confidence < 96 THEN FALSE
  ELSE CASE field.label = "Card Number" -> isValidCardNumber(field.value)
         [] OTHER -> TRUE
keepField(field) ==
  IF field.confidence < minConfidence THEN FALSE
  ELSE CASE field.label = "Card Number" -> isValidCardNumber(field.value)
         [] field.label = "Name" -> isValidName(field.value) \/ field.confidence >= 75
         [] field.label = "Address" -> isValidAddress(field.value) \/ field.confidence >= 75
         [] field.label = "License Class" ->
              isValidLicenseClass(field.value) \/ field.confidence >= 70
         [] field.label \in {"Date of Birth", "Expiry Date"} ->
              Test(reValidDate, field.value) \/ field.confidence >= 70
         [] field.label = "License Fee" ->
              isValidAmount(removeFirst(field.value, "$")) \/ field.confidence >= 80
         [] OTHER -> TRUE

validateAndFilterFields(fields, structure) == SelectSeq(fields, keepField)

\* the fields after the six extractors, before the final validation
licenseCandidates(documentStructure) ==
  extractLicenseFee(
    extractDates(
      extractLicenseClass(
        extractAddress(
          extractName(
            extractCardNumber(<<>>, documentStructure),
            documentStructure),
          documentStructure),
        documentStructure),
      documentStructure),
    documentStructure)
licenseFields(documentStructure) ==
  validateAndFilterFields(licenseCandidates(documentStructure), documentStructure)
extractLicenseFields(lines) == licenseFields(analyzeDocumentStructure(lines))

\* a variant that trims the text and leaves its line breaks
trimOnly(text) == trim(text)
normalizeForExtraction(text) == trim(collapseWhitespace(text))

\* a variant whose switch has no default and throws for a generic text; the
\* error takes the place of the list
fieldsOfTypeNoDefault(lines, documentType) ==
  CASE documentType \in {"license", "id"} -> extractLicenseFields(lines)
    [] documentType \in {"invoice", "receipt"} -> extractInvoiceFields(lines)
    [] documentType = "passport" -> extractPassportFields(lines)
    [] OTHER -> << [error |-> "TypeError"] >>
fieldsOfType(lines, documentType) ==
  CASE documentType \in {"license", "id"} -> extractLicenseFields(lines)
    [] documentType \in {"invoice", "receipt"} -> extractInvoiceFields(lines)
    [] documentType = "passport" -> extractPassportFields(lines)
    [] OTHER -> extractGenericFields(lines)
fieldsOfLines(lines) == fieldsOfType(lines, detectDocumentType(lines))

extractFields(text) == fieldsOfLines(splitLines(normalizeForExtraction(text)))

(***************************************************************************)
(* Bounds of the model                                                     *)
(***************************************************************************)
\* the largest number of pages of a PDF
MaxPages == 3
\* the number of documents one session creates
MaxDocuments == 1
\* the largest number of pieces of an input text of extractFields
MaxTokens == 2

(***************************************************************************)
(* Numbers: the quotients the program computes are kept exact, as a        *)
(* fraction <<numerator, denominator>> in lowest terms                     *)
(***************************************************************************)
RECURSIVE gcd(_, _)
gcd(a, b) == IF b = 0 THEN a ELSE gcd(b, a % b)
Rat(num, den) == IF num = 0 THEN <<0, 1>> ELSE <<num \div gcd(num, den), den \div gcd(num, den)>>
RatAdd(p, q) == Rat(p[1] * q[2] + q[1] * p[2], p[2] * q[2])
RatMul(p, q) == Rat(p[1] * q[1], p[2] * q[2])
RatLeq(p, q) == p[1] * q[2] <= q[1] * p[2]
\* Math.round of a quotient that is not negative
MathRound(p) == (2 * p[1] + p[2]) \div (2 * p[2])
RECURSIVE SumSeq(_)
SumSeq(a) == IF a = <<>> THEN 0 ELSE Head(a) + SumSeq(Tail(a))

(***************************************************************************)
(* The environment: the files a user selects and what the recognition      *)
(* engine may answer                                                       *)
(***************************************************************************)
Files ==
  { [name |-> "doc.pdf", type |-> "application/pdf"],
    [name |-> "scan.png", type |-> "image/png"],
    [name |-> "notes.txt", type |-> "text/plain"] }
\* result.data.text of a recognition
EngineTexts == {"Invoice Number: A-1234", "Total: $5.00"}
\* result.data.confidence of the first and of the fallback recognition
FirstConfidences == {20, 39, 40, 90}
FallbackConfidences == {20, 39, 60}
\* m.progress of the engine's logger
EngineProgress == {<<0, 1>>, <<1, 2>>, <<1, 1>>}

VARIABLES
  host,              \* "Index": the page is mounted; "library": a caller of processDocument
  processingStage,   \* useState of Index ("null" stands for null)
  progress,          \* useState of Index
  currentDocument,   \* useState of Index (<<>> stands for null, <<d>> for the record d)
  documentHistory,   \* useState of Index
  previewImage,      \* useState of Index ("null" stands for null)
  toast,             \* the title of the toast last shown
  timer,             \* the setTimeout of handleFileSelect is pending
  localStorage,      \* the parsed "documentHistory" item
  clock,             \* Date.now(), one tick per document created
  hfs,               \* the frame of handleFileSelect
  pd,                \* the frame of processDocument
  pdProgress,        \* the progress last passed to the onProgress of processDocument
  db,                \* the documentHistory store of IndexedDB
  ocr,               \* the frame of performOCR and of its performFallbackOCR
  liveWorkers,       \* engine workers created and not yet terminated
  inputText,         \* the argument of extractFields
  outputFields,      \* what extractFields returned
  extracted,         \* extractFields has returned
  raster,         \* the pixel buffer handed to an operation of imageEnhancer
  rasterOut,       \* the pixel buffer the operation returned
  rasterOp,          \* the operation applied ("none" before)
  candidates,        \* the argument of validateAndFilterFields
  validFields,       \* what validateAndFilterFields returned
  validated,         \* validateAndFilterFields has returned
  docLines,          \* the lines handed to extractLicenseFields or, as date section, to extractDates
  docCandidates,     \* the fields the extractors pushed, before the final validation
  docFields,         \* the fields returned
  docOp,             \* the function applied ("none" before)
  rawText,           \* the argument of cleanExtractedText
  cleanText,         \* what cleanExtractedText returned
  cleaningDone,      \* cleanExtractedText has returned
  storageCalls       \* the calls of documentStorage made by a caller of the module, in order

uiVars == <<processingStage, progress, currentDocument, documentHistory, previewImage, toast, timer>>
storeVars == <<localStorage, clock>>
pdVars == <<pd, pdProgress, db>>
ocrVars == <<ocr, liveWorkers>>
rasterVars == <<raster, rasterOut, rasterOp>>
filterVars == <<candidates, validFields, validated>>
licenseVars == <<docLines, docCandidates, docFields, docOp>>
cleanVars == <<rawText, cleanText, cleaningDone, storageCalls>>
fieldVars == <<inputText, outputFields, extracted, rasterVars, filterVars, licenseVars, cleanVars>>
vars == <<host, uiVars, storeVars, hfs, pdVars, ocrVars, fieldVars>>

NoResult == [text |-> "", confidence |-> 0 - 1]

hfsIdle ==
  [pc |-> "idle", file |-> [name |-> "", type |-> ""], totalPages |-> 0, pdfPages |-> <<>>,
   imagesToProcess |-> <<>>, i |-> 0, enhancedPreview |-> "", allExtractedText |-> <<>>,
   allFields |-> <<>>, totalConfidence |-> 0,
   \* history of the run: the failures caught by the loop, and the calls made
   caught |-> <<>>, enhanceCalls |-> 0, ocrCalls |-> 0,
   \* how extractPDFPages ended: <<pageImages>> once it returned, the error it
   \* caught and the message it rejected with once it rejected
   pdfReturned |-> <<>>, pdfRejected |-> <<>>]

pdIdle ==
  [pc |-> "idle", file |-> [name |-> "", type |-> ""], numPages |-> 0, page |-> 0,
   pageImages |-> <<>>, i |-> 0, aggregatedText |-> "", confidences |-> <<>>,
   ret |-> [fullText |-> "", confidence |-> <<0, 1>>, fields |-> <<>>],
   \* history of the run: the failures caught by the loop, the calls made, and
   \* the await whose failure rejected the call ("" when there is none)
   caught |-> <<>>, enhanceCalls |-> 0, ocrCalls |-> 0, thrown |-> ""]

ocrIdle ==
  [pc |-> "idle", imageData |-> "", first |-> NoResult, fallback |-> NoResult,
   workers |-> <<>>, recognitions |-> 0, fallbacks |-> 0, ret |-> NoResult]

(***************************************************************************)
(* documentStorage                                                         *)
(***************************************************************************)
getDocumentHistory(stored) == stored

\* JSON.stringify drops the two members set to undefined
saveDocument(stored, document) ==
  LET documentForStorage ==
        [id |-> document.id, fileName |-> document.fileName, fileType |-> document.fileType,
         timestamp |-> document.timestamp, extractedText |-> document.extractedText,
         confidence |-> document.confidence, fields |-> document.fields]
  IN  <<documentForStorage>> \o getDocumentHistory(stored)

\* a variant that removes the first record of that id only
deleteFirstMatch(stored, id) ==
  SelectSeqIdx(getDocumentHistory(stored),
               LAMBDA doc, k : doc.id # id \/ \E j \in 1..(k - 1) : stored[j].id = id, 1)
deleteDocument(stored, id) ==
  SelectSeq(getDocumentHistory(stored), LAMBDA doc : doc.id # id)

\* localStorage.removeItem(STORAGE_KEY): getDocumentHistory then returns []
clearHistory(stored) == <<>>

(***************************************************************************)
(* Init: the page has just been mounted, or the library has just been      *)
(* loaded; nothing is stored                                               *)
(***************************************************************************)
NoImage == [data |-> <<>>, width |-> 0, height |-> 0]

\* no pixel buffer and no candidate list is under work
InitNoRaster ==
  /\ raster = NoImage
  /\ rasterOut = <<>>
  /\ rasterOp = "none"

InitNoClean ==
  /\ rawText = ""
  /\ cleanText = ""
  /\ cleaningDone = FALSE
  /\ storageCalls = <<>>

InitNoLicense ==
  /\ docLines = <<>>
  /\ docCandidates = <<>>
  /\ docFields = <<>>
  /\ docOp = "none"
  /\ InitNoClean

InitNoFilter ==
  /\ candidates = <<>>
  /\ validFields = <<>>
  /\ validated = FALSE
  /\ InitNoLicense

InitCommon ==
  /\ processingStage = "null"
  /\ progress = <<0, 1>>
  /\ currentDocument = <<>>
  /\ localStorage = <<>>
  /\ documentHistory = getDocumentHistory(localStorage)
  /\ previewImage = "null"
  /\ toast = ""
  /\ timer = FALSE
  /\ clock = 0
  /\ hfs = hfsIdle
  /\ pd = pdIdle
  /\ pdProgress = <<0, 1>>
  /\ db = <<>>
  /\ ocr = ocrIdle
  /\ liveWorkers = 0

Init ==
  /\ host \in {"Index", "library"}
  /\ InitCommon
  /\ inputText = ""
  /\ outputFields = <<>>
  /\ extracted = FALSE
  /\ InitNoRaster
  /\ InitNoFilter

(***************************************************************************)
(* performOCR and performFallbackOCR: one action per await                 *)
(***************************************************************************)
\* cleanExtractedText and extractFields on the texts the engine can answer,
\* computed once
cleanedTexts == [t \in EngineTexts |-> cleanExtractedText(t)]
pageFields == [t \in { cleanedTexts[e] : e \in EngineTexts } |-> extractFields(t)]

\* what the callers of performOCR leave alone while it runs
ocrFrame == <<host, processingStage, currentDocument, documentHistory, previewImage, toast,
              timer, storeVars, hfs, pd, db, fieldVars>>

\* the call itself runs up to "await createWorker"
performOCR(imageData) == [ocrIdle EXCEPT !.pc = "createWorker", !.imageData = imageData]

\* a variant that leaves the worker running
leaveRunning(workers, k) == workers
\* worker.terminate() on the k-th worker of the call
terminate(workers, k) == [workers EXCEPT ![k].terminated = @ + 1]

\* a variant that also retries at confidence 40
lowConfidenceInclusive(confidence) == confidence <= 40
\* if (result.data.confidence < 40)
lowConfidence(confidence) == confidence < 40

\* a variant that prefers the fallback on equal confidence
fallbackWinsTies(fallbackResult, result) == fallbackResult.confidence >= result.confidence
\* if (fallbackResult.confidence > result.data.confidence)
fallbackWins(fallbackResult, result) == fallbackResult.confidence > result.confidence

\* return { text: cleanedText, confidence: result.data.confidence }
firstResult(o) ==
  [text |-> cleanedTexts[o.first.text], confidence |-> o.first.confidence]

\* createWorker resolves and worker.recognize is called
CreateWorkerResolves ==
  /\ ocr.pc = "createWorker"
  /\ ocr' = [ocr EXCEPT !.pc = "recognize",
                        !.workers = Append(@, [by |-> "performOCR", terminated |-> 0]),
                        !.recognitions = @ + 1]
  /\ liveWorkers' = liveWorkers + 1
  /\ UNCHANGED <<ocrFrame, progress, pdProgress>>

\* createWorker rejects: performOCR rejects, no worker exists
CreateWorkerRejects ==
  /\ ocr.pc = "createWorker"
  /\ ocr' = [ocr EXCEPT !.pc = "rejected"]
  /\ UNCHANGED <<ocrFrame, progress, pdProgress, liveWorkers>>

\* baseProgress of iteration i of handleFileSelect
baseProgress(f) == RatAdd(<<20, 1>>, Rat(f.i * 80, Len(f.imagesToProcess)))

\* the logger of the first worker passes m.progress * 100 to the onProgress of the
\* caller: (ocrProgress) => setProgress(baseProgress + 10 + ocrProgress.progress * 0.6) in
\* handleFileSelect, the caller's own callback in processDocument
RecognizeProgress ==
  /\ ocr.pc = "recognize"
  /\ \E m \in EngineProgress :
       LET ocrProgress == RatMul(m, <<100, 1>>)
       IN  IF host = "Index"
           THEN /\ progress' = RatAdd(RatAdd(baseProgress(hfs), <<10, 1>>),
                                      RatMul(ocrProgress, <<3, 5>>))
                /\ UNCHANGED pdProgress
           ELSE /\ pdProgress' = ocrProgress
                /\ UNCHANGED progress
  /\ UNCHANGED <<ocrFrame, ocrVars>>

RecognizeResolves ==
  /\ ocr.pc = "recognize"
  /\ \E t \in EngineTexts, c \in FirstConfidences :
       ocr' = [ocr EXCEPT !.pc = "terminate", !.first = [text |-> t, confidence |-> c]]
  /\ UNCHANGED <<ocrFrame, progress, pdProgress, liveWorkers>>

\* worker.recognize rejects: the catch block calls worker.terminate()
RecognizeRejects ==
  /\ ocr.pc = "recognize"
  /\ ocr' = [ocr EXCEPT !.pc = "catchTerminate"]
  /\ UNCHANGED <<ocrFrame, progress, pdProgress, liveWorkers>>

\* a variant that does not await worker.terminate(): the worker is still alive
\* when the code goes on
TerminateNotAwaited ==
  /\ ocr.pc = "terminate"
  /\ IF lowConfidence(ocr.first.confidence)
     THEN ocr' = [ocr EXCEPT !.pc = "fbCreateWorker", !.fallbacks = @ + 1]
     ELSE ocr' = [ocr EXCEPT !.pc = "resolved", !.ret = firstResult(ocr)]
  /\ UNCHANGED <<ocrFrame, progress, pdProgress, liveWorkers>>

\* worker.terminate() of line 32 resolves; the text is cleaned and either
\* performFallbackOCR is called (up to its "await createWorker") or the first result returned
TerminateResolves ==
  /\ ocr.pc = "terminate"
  /\ liveWorkers' = liveWorkers - 1
  /\ IF lowConfidence(ocr.first.confidence)
     THEN ocr' = [ocr EXCEPT !.pc = "fbCreateWorker", !.workers = terminate(@, 1),
                             !.fallbacks = @ + 1]
     ELSE ocr' = [ocr EXCEPT !.pc = "resolved", !.workers = terminate(@, 1),
                             !.ret = firstResult(ocr)]
  /\ UNCHANGED <<ocrFrame, progress, pdProgress>>

\* worker.terminate() of the catch block resolves; the error is thrown again
CatchTerminateResolves ==
  /\ ocr.pc = "catchTerminate"
  /\ liveWorkers' = liveWorkers - 1
  /\ ocr' = [ocr EXCEPT !.pc = "rejected", !.workers = terminate(@, 1)]
  /\ UNCHANGED <<ocrFrame, progress, pdProgress>>

FallbackCreateWorkerResolves ==
  /\ ocr.pc = "fbCreateWorker"
  /\ ocr' = [ocr EXCEPT !.pc = "fbRecognize",
                        !.workers = Append(@, [by |-> "performFallbackOCR", terminated |-> 0]),
                        !.recognitions = @ + 1]
  /\ liveWorkers' = liveWorkers + 1
  /\ UNCHANGED <<ocrFrame, progress, pdProgress>>

\* createWorker of performFallbackOCR rejects: caught by performOCR (lines 50-52),
\* which returns the first result
FallbackCreateWorkerRejects ==
  /\ ocr.pc = "fbCreateWorker"
  /\ ocr' = [ocr EXCEPT !.pc = "resolved", !.ret = firstResult(ocr)]
  /\ UNCHANGED <<ocrFrame, progress, pdProgress, liveWorkers>>

FallbackRecognizeResolves ==
  /\ ocr.pc = "fbRecognize"
  /\ \E t \in EngineTexts, c \in FallbackConfidences :
       ocr' = [ocr EXCEPT !.pc = "fbTerminate", !.fallback = [text |-> t, confidence |-> c]]
  /\ UNCHANGED <<ocrFrame, progress, pdProgress, liveWorkers>>

FallbackRecognizeRejects ==
  /\ ocr.pc = "fbRecognize"
  /\ ocr' = [ocr EXCEPT !.pc = "fbCatchTerminate"]
  /\ UNCHANGED <<ocrFrame, progress, pdProgress, liveWorkers>>

\* worker.terminate() of performFallbackOCR resolves, the raw fallback result is
\* returned and performOCR chooses between the two results (lines 42-58)
FallbackTerminateResolves ==
  /\ ocr.pc = "fbTerminate"
  /\ liveWorkers' = liveWorkers - 1
  /\ ocr' = [ocr EXCEPT !.pc = "resolved", !.workers = terminate(@, 2),
                        !.ret = IF fallbackWins(ocr.fallback, ocr.first)
                                THEN [text |-> cleanedTexts[ocr.fallback.text],
                                      confidence |-> ocr.fallback.confidence]
                                ELSE firstResult(ocr)]
  /\ UNCHANGED <<ocrFrame, progress, pdProgress>>

\* a variant without the inner catch of performOCR: the error of the fallback
\* reaches the outer catch and performOCR rejects
FallbackErrorPropagates ==
  /\ ocr.pc = "fbCatchTerminate"
  /\ liveWorkers' = liveWorkers - 1
  /\ ocr' = [ocr EXCEPT !.pc = "rejected", !.workers = terminate(@, 2)]
  /\ UNCHANGED <<ocrFrame, progress, pdProgress>>

\* worker.terminate() of the catch block of performFallbackOCR resolves, the error
\* is thrown again and caught by performOCR, which returns the first result
FallbackCatchTerminateResolves ==
  /\ ocr.pc = "fbCatchTerminate"
  /\ liveWorkers' = liveWorkers - 1
  /\ ocr' = [ocr EXCEPT !.pc = "resolved", !.workers = terminate(@, 2),
                        !.ret = firstResult(ocr)]
  /\ UNCHANGED <<ocrFrame, progress, pdProgress>>

(***************************************************************************)
(* Index.handleFileSelect: one action per await                            *)
(***************************************************************************)
startsWith(s, prefix) == Len(s) >= Len(prefix) /\ SubSeq(s, 1, Len(prefix)) = prefix
endsWith(s, suffix) ==
  Len(s) >= Len(suffix) /\ SubSeq(s, Len(s) - Len(suffix) + 1, Len(s)) = suffix

\* title: pageNumber ? `Processing Page ${pageNumber}` : "Processing Image"
\* (an image file has no pageNumber: 0 stands for undefined)
pageToast(image) ==
  IF image.pageNumber # 0 THEN "Processing Page " \o ToString(image.pageNumber)
  ELSE "Processing Image"

\* the catch block of handleFileSelect
hfsProcessingFailed(f) ==
  /\ toast' = "Processing Failed"
  /\ processingStage' = "null"
  /\ progress' = <<0, 1>>
  /\ hfs' = [f EXCEPT !.pc = "returned"]
  /\ UNCHANGED <<currentDocument, documentHistory, previewImage, timer, storeVars>>

\* a variant that forgets setProcessingStage(null)
hfsPdfErrorKeepsStage(f) ==
  /\ toast' = "PDF Error"
  /\ hfs' = [f EXCEPT !.pc = "returned"]
  /\ UNCHANGED <<processingStage, progress, currentDocument, documentHistory, previewImage,
                 timer, storeVars>>

\* the catch block around extractPDFPages
hfsPdfError(f) ==
  /\ toast' = "PDF Error"
  /\ processingStage' = "null"
  /\ hfs' = [f EXCEPT !.pc = "returned"]
  /\ UNCHANGED <<progress, currentDocument, documentHistory, previewImage, timer, storeVars>>

\* setPreviewImage(imagesToProcess[0].imageData), then "Process all images/pages"
\* up to the await of enhanceImage in the first iteration; progress is the caller's
hfsProcessAll(f, images) ==
  /\ processingStage' = "enhancing"
  /\ previewImage' = images[1].imageData
  /\ toast' = pageToast(images[1])
  /\ hfs' = [f EXCEPT !.pc = "enhanceImage", !.imagesToProcess = images, !.i = 0,
                      !.enhancedPreview = images[1].imageData, !.enhanceCalls = @ + 1]
  /\ UNCHANGED <<currentDocument, documentHistory, timer, storeVars>>

handleFileSelect ==
  /\ host = "Index"
  /\ hfs.pc \in {"idle", "returned"}
  \* UploadZone is rendered
  /\ processingStage = "null"
  /\ currentDocument = <<>>
  /\ clock < MaxDocuments
  /\ \E file \in Files :
       LET f == [hfsIdle EXCEPT !.file = file]
       IN  IF file.type = "application/pdf"
           THEN /\ processingStage' = "enhancing"
                /\ progress' = <<0, 1>>
                /\ toast' = "Processing PDF"
                /\ hfs' = [f EXCEPT !.pc = "getDocument"]
                /\ UNCHANGED <<currentDocument, documentHistory, previewImage, timer, storeVars>>
           ELSE IF startsWith(file.type, "image/")
           THEN /\ processingStage' = "enhancing"
                /\ progress' = <<0, 1>>
                /\ hfs' = [f EXCEPT !.pc = "readAsDataURL"]
                /\ UNCHANGED <<currentDocument, documentHistory, previewImage, toast, timer,
                               storeVars>>
           ELSE hfsProcessingFailed(f)
  /\ UNCHANGED <<host, pdVars, ocrVars, fieldVars>>

\* if (pdfPages.length === 0)
noPages(pdfPages) == Len(pdfPages) = 0

\* extractPDFPages: the document is loaded; with no page the loop is not entered
\* and [] is returned to handleFileSelect
GetDocumentResolves ==
  /\ hfs.pc = "getDocument"
  /\ \E numPages \in 0..MaxPages :
       IF numPages = 0
       THEN IF noPages(<<>>) THEN hfsPdfError([hfs EXCEPT !.pdfReturned = << <<>> >>])
            ELSE hfsProcessAll([hfs EXCEPT !.pdfReturned = << <<>> >>], <<>>) /\ UNCHANGED progress
       ELSE /\ hfs' = [hfs EXCEPT !.pc = "getPage", !.totalPages = numPages]
            /\ UNCHANGED <<uiVars, storeVars>>
  /\ UNCHANGED <<host, pdVars, ocrVars, fieldVars>>

\* extractPDFPages: a page is loaded and rendered, onProgress((pageNum / totalPages) * 100)
\* runs setProgress(progress * 0.2); after the last page the list is returned
PageRendered ==
  /\ hfs.pc = "getPage"
  /\ LET pageNum == Len(hfs.pdfPages) + 1
         pageImages == Append(hfs.pdfPages,
                         [pageNumber |-> pageNum, imageData |-> "page " \o ToString(pageNum)])
         f == [hfs EXCEPT !.pdfPages = pageImages]
     IN  /\ progress' = RatMul(Rat(pageNum * 100, hfs.totalPages), <<1, 5>>)
         /\ IF pageNum < hfs.totalPages
            THEN /\ hfs' = f
                 /\ UNCHANGED <<processingStage, currentDocument, documentHistory, previewImage,
                                toast, timer, storeVars>>
            ELSE IF noPages(pageImages) THEN hfsPdfError([f EXCEPT !.pdfReturned = <<pageImages>>])
            ELSE hfsProcessAll([f EXCEPT !.pdfReturned = <<pageImages>>], pageImages)
  /\ UNCHANGED <<host, pdVars, ocrVars, fieldVars>>

\* what the try block of extractPDFPages can throw: the errors of the PDF
\* library, the error of line 44, and a value that is not an Error
PdfFailures ==
  { [isError |-> TRUE, message |-> "No password given"],
    [isError |-> TRUE, message |-> "InvalidPDFException"],
    [isError |-> TRUE, message |-> "MissingPDFException"],
    [isError |-> TRUE, message |-> "Could not get canvas context"],
    [isError |-> TRUE, message |-> "encrypted or corrupt"],
    [isError |-> FALSE, message |-> "password"] }

passwordMessage == "The PDF appears to be password-protected. Please provide an unprotected PDF."
corruptMessage == "The PDF file appears to be corrupted or invalid. Please try a different file."
missingMessage == "The PDF file could not be found or read. Please check the file and try again."
unknownMessage == "An unknown error occurred while processing the PDF."

\* a variant whose tests are not chained by else: every sentence that applies is added
pdfErrorMessageNoElse(error) ==
  "Failed to extract PDF. " \o
    (IF ~error.isError THEN unknownMessage
     ELSE (IF includes(error.message, "password") \/ includes(error.message, "encrypted")
           THEN passwordMessage ELSE "") \o
          (IF includes(error.message, "InvalidPDFException") \/ includes(error.message, "corrupt")
           THEN corruptMessage ELSE "") \o
          (IF includes(error.message, "MissingPDFException") THEN missingMessage ELSE "") \o
          (IF ~(\E w \in {"password", "encrypted", "InvalidPDFException", "corrupt",
                           "MissingPDFException"} : includes(error.message, w))
           THEN "Error: " \o error.message ELSE ""))

\* the message of the Error the catch block of extractPDFPages throws
pdfErrorMessage(error) ==
  "Failed to extract PDF. " \o
    (IF error.isError
     THEN IF includes(error.message, "password") \/ includes(error.message, "encrypted")
          THEN passwordMessage
          ELSE IF includes(error.message, "InvalidPDFException") \/ includes(error.message, "corrupt")
          THEN corruptMessage
          ELSE IF includes(error.message, "MissingPDFException")
          THEN missingMessage
          ELSE "Error: " \o error.message
     ELSE unknownMessage)

\* extractPDFPages rejects: reading or loading the file, loading or rendering a
\* page fails, or there is no canvas context; the catch block throws one Error
ExtractPDFPagesRejects ==
  /\ hfs.pc \in {"getDocument", "getPage"}
  /\ \E error \in PdfFailures :
       hfsPdfError([hfs EXCEPT !.pdfRejected =
                      << [thrown |-> error, message |-> pdfErrorMessage(error)] >>])
  /\ UNCHANGED <<host, pdVars, ocrVars, fieldVars>>

FileReaderLoads ==
  /\ hfs.pc = "readAsDataURL"
  /\ hfsProcessAll(hfs, << [pageNumber |-> 0, imageData |-> "image"] >>)
  /\ UNCHANGED <<host, progress, pdVars, ocrVars, fieldVars>>

FileReaderFails ==
  /\ hfs.pc = "readAsDataURL"
  /\ hfsProcessingFailed(hfs)
  /\ UNCHANGED <<host, pdVars, ocrVars, fieldVars>>

\* allFields.filter((field, index, self) => index === self.findIndex(...))
RECURSIVE uniqueFields(_, _)
uniqueFields(allFields, k) ==
  IF k > Len(allFields) THEN <<>>
  ELSE (IF \E j \in 1..(k - 1) : /\ allFields[j].label = allFields[k].label
                                 /\ allFields[j].value = allFields[k].value
        THEN <<>> ELSE <<allFields[k]>>) \o uniqueFields(allFields, k + 1)

\* const avgConfidence = totalConfidence / imagesToProcess.length
hfsAverage(f) == Rat(f.totalConfidence, Len(f.imagesToProcess))

\* the document record built after the loop
hfsDocument(f, now) ==
  [id |-> ToString(now), fileName |-> f.file.name, fileType |-> f.file.type,
   timestamp |-> now, extractedText |-> join(f.allExtractedText, "\n\n"),
   confidence |-> hfsAverage(f), fields |-> uniqueFields(f.allFields, 1),
   imageData |-> f.imagesToProcess[1].imageData, enhancedImageData |-> f.enhancedPreview]

\* a variant that leaves the loop after a failed page
hfsStopsAtFailure(f) == f.i + 1 < Len(f.imagesToProcess) /\ f.caught = <<>>
\* i++; i < imagesToProcess.length
hfsMore(f) == f.i + 1 < Len(f.imagesToProcess)

\* after the body of iteration f.i: the next iteration up to its await of
\* enhanceImage, or the code after the loop
hfsNext(f) ==
  IF hfsMore(f)
  THEN /\ hfs' = [f EXCEPT !.pc = "enhanceImage", !.i = @ + 1, !.enhanceCalls = @ + 1]
       /\ toast' = pageToast(f.imagesToProcess[f.i + 2])
       /\ UNCHANGED <<processingStage, progress, currentDocument, documentHistory,
                      previewImage, timer, storeVars>>
  ELSE LET document == hfsDocument(f, clock)
       IN  /\ localStorage' = saveDocument(localStorage, document)
           /\ documentHistory' = getDocumentHistory(localStorage')
           /\ processingStage' = "complete"
           /\ progress' = <<100, 1>>
           /\ currentDocument' = <<document>>
           /\ toast' = "Success!"
           /\ timer' = TRUE
           /\ clock' = clock + 1
           /\ hfs' = [f EXCEPT !.pc = "returned"]
           /\ UNCHANGED previewImage

\* `\n=== Page ${pageNumber || i + 1} - Processing Error ===\n`
errorPlaceholder(image, i) ==
  "\n=== Page " \o ToString(IF image.pageNumber # 0 THEN image.pageNumber ELSE i + 1)
  \o " - Processing Error ===\n"

\* `=== Page ${pageNumber} ===\n${text}\n` for a page of a PDF, the text for an image
textEntry(image, text) ==
  IF image.pageNumber # 0
  THEN "=== Page " \o ToString(image.pageNumber) \o " ===\n" \o text \o "\n"
  ELSE text

\* the catch block of the loop body
hfsCatch(f, step) ==
  [f EXCEPT !.allExtractedText = Append(@, errorPlaceholder(f.imagesToProcess[f.i + 1], f.i)),
            !.totalConfidence = @ + 0,
            !.caught = Append(@, [page |-> f.i + 1, step |-> step])]

\* enhanceImage resolves: preview, progress, stage, and performOCR is called
EnhanceImageResolves ==
  /\ host = "Index"
  /\ hfs.pc = "enhanceImage"
  /\ LET image == hfs.imagesToProcess[hfs.i + 1]
         enhancedImage == "enhanced " \o image.imageData
     IN  /\ previewImage' = IF hfs.i = 0 THEN enhancedImage ELSE previewImage
         /\ progress' = RatAdd(baseProgress(hfs), <<10, 1>>)
         /\ processingStage' = "extracting"
         /\ hfs' = [hfs EXCEPT !.pc = "performOCR", !.ocrCalls = @ + 1,
                               !.enhancedPreview = IF hfs.i = 0 THEN enhancedImage ELSE @]
         /\ ocr' = performOCR(enhancedImage)
  /\ UNCHANGED <<host, currentDocument, documentHistory, toast, timer, storeVars, pdVars,
                 liveWorkers, fieldVars>>

\* enhanceImage rejects (no canvas context, or the image does not load)
EnhanceImageRejects ==
  /\ host = "Index"
  /\ hfs.pc = "enhanceImage"
  /\ hfsNext(hfsCatch(hfs, "enhanceImage"))
  /\ UNCHANGED <<host, pdVars, ocrVars, fieldVars>>

\* performOCR has resolved: fields of the page, the text entry, the confidence
OcrResolved ==
  /\ host = "Index"
  /\ hfs.pc = "performOCR"
  /\ ocr.pc = "resolved"
  /\ hfsNext([hfs EXCEPT !.allExtractedText =
                             Append(@, textEntry(hfs.imagesToProcess[hfs.i + 1], ocr.ret.text)),
                         !.allFields = @ \o pageFields[ocr.ret.text],
                         !.totalConfidence = @ + ocr.ret.confidence])
  /\ ocr' = ocrIdle
  /\ UNCHANGED <<host, pdVars, liveWorkers, fieldVars>>

\* performOCR has rejected
OcrRejected ==
  /\ host = "Index"
  /\ hfs.pc = "performOCR"
  /\ ocr.pc = "rejected"
  /\ hfsNext(hfsCatch(hfs, "performOCR"))
  /\ ocr' = ocrIdle
  /\ UNCHANGED <<host, pdVars, liveWorkers, fieldVars>>

\* setTimeout(() => setProcessingStage(null), 1000)
TimerFires ==
  /\ timer
  /\ timer' = FALSE
  /\ processingStage' = "null"
  /\ UNCHANGED <<host, progress, currentDocument, documentHistory, previewImage, toast,
                 storeVars, hfs, pdVars, ocrVars, fieldVars>>

\* the button of ResultsView, rendered when there is a document and no stage
handleNewAnalysis ==
  /\ host = "Index"
  /\ processingStage = "null"
  /\ currentDocument # <<>>
  /\ currentDocument' = <<>>
  /\ previewImage' = "null"
  /\ UNCHANGED <<host, processingStage, progress, documentHistory, toast, timer, storeVars,
                 hfs, pdVars, ocrVars, fieldVars>>

\* the buttons of HistoryPanel
handleDeleteDocument ==
  /\ host = "Index"
  /\ \E k \in 1..Len(documentHistory) :
       /\ localStorage' = deleteDocument(localStorage, documentHistory[k].id)
       /\ documentHistory' = getDocumentHistory(localStorage')
  /\ toast' = "Deleted"
  /\ UNCHANGED <<host, processingStage, progress, currentDocument, previewImage, timer, clock,
                 hfs, pdVars, ocrVars, fieldVars>>

handleSelectDocument ==
  /\ host = "Index"
  /\ \E k \in 1..Len(documentHistory) :
       /\ currentDocument # <<documentHistory[k]>>
       /\ currentDocument' = <<documentHistory[k]>>
  /\ UNCHANGED <<host, processingStage, progress, documentHistory, previewImage, toast, timer,
                 storeVars, hfs, pdVars, ocrVars, fieldVars>>

(***************************************************************************)
(* processDocument: one action per await                                   *)
(***************************************************************************)
pdFrame == <<host, uiVars, storeVars, hfs, fieldVars>>

\* file.type === 'application/pdf' || file.name.toLowerCase().endsWith('.pdf')
isPDF(file) == file.type = "application/pdf" \/ endsWith(toLowerCase(file.name), ".pdf")

\* `\n=== Page ${i + 1} ===\n` + text + '\n'
pageEntry(page, text) == "\n=== Page " \o ToString(page) \o " ===\n" \o text \o "\n"

\* the aggregated texts the loop can have built after k pages, and extractFields
\* on them, computed once
RECURSIVE aggregatedTexts(_)
aggregatedTexts(k) ==
  IF k = 0 THEN {""}
  ELSE aggregatedTexts(k - 1) \cup
       { a \o pageEntry(k, cleanedTexts[e]) : a \in aggregatedTexts(k - 1), e \in EngineTexts }
aggregateFields == [a \in aggregatedTexts(MaxPages) |-> extractFields(a)]

\* confidences.length ? Math.round(sum / confidences.length) : 0
pdAverage(f) ==
  IF Len(f.confidences) > 0
  THEN <<MathRound(Rat(SumSeq(f.confidences), Len(f.confidences))), 1>>
  ELSE <<0, 1>>

\* the loop "Run OCR on each page and aggregate" from iteration k (0-based) up
\* to its await of performOCR, or the code after the loop up to the await of
\* saveHistoryEntry
pdLoop(f, k) ==
  IF k < Len(f.pageImages)
  THEN /\ pdProgress' = Rat(k * 100, Len(f.pageImages))
       /\ pd' = [f EXCEPT !.pc = "performOCR", !.i = k, !.ocrCalls = @ + 1]
       /\ ocr' = performOCR(f.pageImages[k + 1])
  ELSE /\ pd' = [f EXCEPT !.pc = "saveHistoryEntry", !.i = k,
                          !.ret = [fullText |-> trim(f.aggregatedText),
                                   confidence |-> pdAverage(f),
                                   fields |-> aggregateFields[f.aggregatedText]]]
       /\ ocr' = ocrIdle
       /\ UNCHANGED pdProgress

processDocument ==
  /\ host = "library"
  /\ pd.pc \in {"idle", "resolved", "rejected"}
  /\ Len(db) < MaxDocuments
  /\ \E file \in Files : pd' = [pdIdle EXCEPT !.pc = "arrayBuffer", !.file = file]
  /\ UNCHANGED <<pdFrame, pdProgress, db, ocrVars>>

\* file.arrayBuffer() resolves: getDocument for a PDF, enhanceImage for anything else
ArrayBufferResolves ==
  /\ pd.pc = "arrayBuffer"
  /\ IF isPDF(pd.file)
     THEN pd' = [pd EXCEPT !.pc = "getDocument"]
     ELSE pd' = [pd EXCEPT !.pc = "enhanceImage", !.enhanceCalls = @ + 1]
  /\ UNCHANGED <<pdFrame, pdProgress, db, ocrVars>>

\* file.arrayBuffer(), getDocument, getPage or render rejects
LoadingRejects ==
  /\ pd.pc \in {"arrayBuffer", "getDocument", "getPage"}
  /\ pd' = [pd EXCEPT !.pc = "rejected", !.thrown = pd.pc]
  /\ UNCHANGED <<pdFrame, pdProgress, db, ocrVars>>

LibraryGetDocumentResolves ==
  /\ pd.pc = "getDocument"
  /\ \E numPages \in 0..MaxPages :
       IF numPages = 0
       THEN pdLoop([pd EXCEPT !.numPages = 0], 0)
       ELSE /\ pd' = [pd EXCEPT !.pc = "getPage", !.numPages = numPages, !.page = 1]
            /\ UNCHANGED <<pdProgress, ocr>>
  /\ UNCHANGED <<pdFrame, db, liveWorkers>>

\* the page is rendered and enhanceImage is called
LibraryPageRendered ==
  /\ pd.pc = "getPage"
  /\ pd' = [pd EXCEPT !.pc = "enhancePage", !.enhanceCalls = @ + 1]
  /\ UNCHANGED <<pdFrame, pdProgress, db, ocrVars>>

\* if (!ctx) continue: the page is left out
LibraryPageSkipped ==
  /\ pd.pc = "getPage"
  /\ IF pd.page < pd.numPages
     THEN pd' = [pd EXCEPT !.page = @ + 1] /\ UNCHANGED <<pdProgress, ocr>>
     ELSE pdLoop(pd, 0)
  /\ UNCHANGED <<pdFrame, db, liveWorkers>>

LibraryEnhanceResolves ==
  /\ pd.pc \in {"enhancePage", "enhanceImage"}
  /\ LET enhanced == IF pd.pc = "enhancePage" THEN "enhanced page " \o ToString(pd.page)
                     ELSE "enhanced image"
         f == [pd EXCEPT !.pageImages = Append(@, enhanced)]
     IN  IF pd.pc = "enhancePage" /\ pd.page < pd.numPages
         THEN pd' = [f EXCEPT !.pc = "getPage", !.page = @ + 1] /\ UNCHANGED <<pdProgress, ocr>>
         ELSE pdLoop(f, 0)
  /\ UNCHANGED <<pdFrame, db, liveWorkers>>

\* enhanceImage rejects outside any try block: processDocument rejects
LibraryEnhanceRejects ==
  /\ pd.pc \in {"enhancePage", "enhanceImage"}
  /\ pd' = [pd EXCEPT !.pc = "rejected", !.thrown = "enhanceImage"]
  /\ UNCHANGED <<pdFrame, pdProgress, db, ocrVars>>

\* performOCR has resolved: the entry and the confidence (confidence || 0)
LibraryOcrResolved ==
  /\ host = "library"
  /\ pd.pc = "performOCR"
  /\ ocr.pc = "resolved"
  /\ pdLoop([pd EXCEPT !.aggregatedText = @ \o pageEntry(pd.i + 1, ocr.ret.text),
                       !.confidences = Append(@, ocr.ret.confidence)], pd.i + 1)
  /\ UNCHANGED <<pdFrame, db, liveWorkers>>

\* performOCR has rejected: console.warn only
LibraryOcrRejected ==
  /\ host = "library"
  /\ pd.pc = "performOCR"
  /\ ocr.pc = "rejected"
  /\ pdLoop([pd EXCEPT !.caught = Append(@, [page |-> pd.i + 1, step |-> "performOCR"])],
            pd.i + 1)
  /\ UNCHANGED <<pdFrame, db, liveWorkers>>

SaveHistoryEntryResolves ==
  /\ pd.pc = "saveHistoryEntry"
  /\ db' = Append(db, [fileName |-> pd.file.name, text |-> pd.aggregatedText,
                       fields |-> pd.ret.fields])
  /\ pd' = [pd EXCEPT !.pc = "resolved"]
  /\ UNCHANGED <<pdFrame, pdProgress, ocrVars>>

\* caught: console.warn only
SaveHistoryEntryRejects ==
  /\ pd.pc = "saveHistoryEntry"
  /\ pd' = [pd EXCEPT !.pc = "resolved"]
  /\ UNCHANGED <<pdFrame, pdProgress, db, ocrVars>>

Next ==
  \/ handleFileSelect
  \/ GetDocumentResolves
  \/ PageRendered
  \/ ExtractPDFPagesRejects
  \/ FileReaderLoads
  \/ FileReaderFails
  \/ EnhanceImageResolves
  \/ EnhanceImageRejects
  \/ OcrResolved
  \/ OcrRejected
  \/ TimerFires
  \/ handleNewAnalysis
  \/ handleDeleteDocument
  \/ handleSelectDocument
  \/ processDocument
  \/ ArrayBufferResolves
  \/ LoadingRejects
  \/ LibraryGetDocumentResolves
  \/ LibraryPageRendered
  \/ LibraryPageSkipped
  \/ LibraryEnhanceResolves
  \/ LibraryEnhanceRejects
  \/ LibraryOcrResolved
  \/ LibraryOcrRejected
  \/ SaveHistoryEntryResolves
  \/ SaveHistoryEntryRejects
  \/ CreateWorkerResolves
  \/ CreateWorkerRejects
  \/ RecognizeProgress
  \/ RecognizeResolves
  \/ RecognizeRejects
  \/ TerminateResolves
  \/ CatchTerminateResolves
  \/ FallbackCreateWorkerResolves
  \/ FallbackCreateWorkerRejects
  \/ FallbackRecognizeResolves
  \/ FallbackRecognizeRejects
  \/ FallbackTerminateResolves
  \/ FallbackCatchTerminateResolves

Spec == Init /\ [][Next]_vars

(***************************************************************************)
(* extractFields applied to the texts made of a few pieces                 *)
(***************************************************************************)
Tokens ==
  { "Invoice Number: A-1234", "Total: $5.00", "Name: Bob", "Passport No: X1234567",
    "Licence", "Card Number 12345678", "a@b.co", "12/05/2020", "DOB 20 AUG 1976",
    "Class C", "John Smith", "Date of Birth 20 AUG 1976", "Expiry 19 JAN 2029" }
Separators == {" ", "\n"}
\* texts without any piece: empty, or white space only
Blanks == {"", " ", "\n \n"}
\* a text stands alone or under the heading of a licence
Headings == {"", "Licence\n"}

RECURSIVE TextsOf(_)
TextsOf(k) ==
  IF k = 0 THEN Blanks
  ELSE IF k = 1 THEN Tokens
  ELSE { t \o sep \o w : t \in TextsOf(k - 1), sep \in Separators, w \in Tokens }
Texts == { h \o t : h \in Headings, t \in UNION { TextsOf(k) : k \in 0..MaxTokens } }

InitFields ==
  /\ host = "library"
  /\ InitCommon
  /\ inputText \in Texts
  /\ outputFields = <<>>
  /\ extracted = FALSE
  /\ InitNoRaster
  /\ InitNoFilter

ExtractFields ==
  /\ ~extracted
  /\ outputFields' = extractFields(inputText)
  /\ extracted' = TRUE
  /\ UNCHANGED <<host, uiVars, storeVars, hfs, pdVars, ocrVars, inputText, rasterVars, filterVars,
                 licenseVars, cleanVars>>

NextFields == ExtractFields

SpecFields == InitFields /\ [][NextFields]_vars

(***************************************************************************)
(* The pixel operations of imageEnhancer applied to small binary images    *)
(***************************************************************************)
MaxSide == 4
MaxSpecks == 2

\* data[idx] of a Uint8ClampedArray, whose first index is 0
at(data, idx) == data[idx + 1]

\* the pixel (x, y) an index of the buffer belongs to, and its channel
pixelX(n, width) == ((n - 1) \div 4) % width
pixelY(n, width) == ((n - 1) \div 4) \div width
channel(n) == (n - 1) % 4

\* for (let y = 1; y < height - 1; y++) for (let x = 1; x < width - 1; x++)
inLoop(x, y, width, height) == y >= 1 /\ y < height - 1 /\ x >= 1 /\ x < width - 1

\* const nidx = ((y + ky) * width + (x + kx)) * 4
nidx(x, y, kx, ky, width) == ((y + ky) * width + (x + kx)) * 4

Smallest(S) == CHOOSE v \in S : \A u \in S : v <= u
Largest(S) == CHOOSE v \in S : \A u \in S : v >= u

\* let minValue = 255; minValue = Math.min(minValue, data[nidx]) over the 3x3 neighbourhood
minValue(data, x, y, width) ==
  Smallest({255} \cup { at(data, nidx(x, y, kx, ky, width)) : kx \in (0 - 1)..1, ky \in (0 - 1)..1 })

\* let maxValue = 0; maxValue = Math.max(maxValue, data[nidx]) over the 3x3 neighbourhood
maxValue(data, x, y, width) ==
  Largest({0} \cup { at(data, nidx(x, y, kx, ky, width)) : kx \in (0 - 1)..1, ky \in (0 - 1)..1 })

\* the output is a new Uint8ClampedArray (all 0) written at the pixels of the
\* loop only: the minimum of the R channel into R, G and B, the alpha copied
applyErosion(data, width, height) ==
  [n \in 1..Len(data) |->
     IF ~inLoop(pixelX(n, width), pixelY(n, width), width, height) THEN 0
     ELSE IF channel(n) = 3 THEN data[n]
     ELSE minValue(data, pixelX(n, width), pixelY(n, width), width)]

applyDilation(data, width, height) ==
  [n \in 1..Len(data) |->
     IF ~inLoop(pixelX(n, width), pixelY(n, width), width, height) THEN 0
     ELSE IF channel(n) = 3 THEN data[n]
     ELSE maxValue(data, pixelX(n, width), pixelY(n, width), width)]

\* output.set(data); eroded = applyErosion(output); opened = applyDilation(eroded)
applyMorphologicalCleaning(data, width, height) ==
  applyDilation(applyErosion(data, width, height), width, height)

\* kernel [-1 -1 -1; -1 9 -1; -1 -1 -1] summed over the neighbourhood of one channel
RECURSIVE sumOf(_, _)
sumOf(f, S) ==
  IF S = {} THEN 0 ELSE LET k == CHOOSE k \in S : TRUE IN f[k] + sumOf(f, S \ {k})

neighbours == ((0 - 1)..1) \X ((0 - 1)..1)
weight(k) == IF k = <<0, 0>> THEN 9 ELSE 0 - 1

convolved(data, x, y, c, width) ==
  sumOf([k \in neighbours |-> at(data, nidx(x, y, k[1], k[2], width) + c) * weight(k)], neighbours)

\* Math.max(0, Math.min(255, r))
clamp255(v) == IF v < 0 THEN 0 ELSE IF v > 255 THEN 255 ELSE v

applyDocumentSharpening(data, width, height) ==
  [n \in 1..Len(data) |->
     IF ~inLoop(pixelX(n, width), pixelY(n, width), width, height) THEN 0
     ELSE IF channel(n) = 3 THEN data[n]
     ELSE clamp255(convolved(data, pixelX(n, width), pixelY(n, width), channel(n), width))]

\* the images: a background of 0 or of 255 with a few pixels of the other
\* value, grey (R = G = B) and opaque
Positions(width, height) == (0..(width - 1)) \X (0..(height - 1))

RECURSIVE SpecksOf(_, _)
SpecksOf(k, P) ==
  IF k = 0 THEN {{}} ELSE LET S == SpecksOf(k - 1, P) IN S \cup { s \cup {p} : s \in S, p \in P }

greyImage(width, height, background, specks) ==
  [data |-> [n \in 1..(4 * width * height) |->
               IF channel(n) = 3 THEN 255
               ELSE IF <<pixelX(n, width), pixelY(n, width)>> \in specks THEN 255 - background
               ELSE background],
   width |-> width, height |-> height]

Images ==
  UNION { { greyImage(w, h, b, s) : b \in {0, 255}, s \in SpecksOf(MaxSpecks, Positions(w, h)) } :
          w \in 3..MaxSide, h \in 3..MaxSide }

InitImage ==
  /\ host = "library"
  /\ InitCommon
  /\ inputText = ""
  /\ outputFields = <<>>
  /\ extracted = FALSE
  /\ raster \in Images
  /\ rasterOut = <<>>
  /\ rasterOp = "none"
  /\ InitNoFilter

ImageFrame == UNCHANGED <<host, uiVars, storeVars, hfs, pdVars, ocrVars, inputText, outputFields,
                          extracted, raster, filterVars, licenseVars, cleanVars>>

ApplyErosion ==
  /\ rasterOp = "none"
  /\ rasterOut' = applyErosion(raster.data, raster.width, raster.height)
  /\ rasterOp' = "applyErosion"
  /\ ImageFrame

ApplyDilation ==
  /\ rasterOp = "none"
  /\ rasterOut' = applyDilation(raster.data, raster.width, raster.height)
  /\ rasterOp' = "applyDilation"
  /\ ImageFrame

ApplyMorphologicalCleaning ==
  /\ rasterOp = "none"
  /\ rasterOut' = applyMorphologicalCleaning(raster.data, raster.width, raster.height)
  /\ rasterOp' = "applyMorphologicalCleaning"
  /\ ImageFrame

ApplyDocumentSharpening ==
  /\ rasterOp = "none"
  /\ rasterOut' = applyDocumentSharpening(raster.data, raster.width, raster.height)
  /\ rasterOp' = "applyDocumentSharpening"
  /\ ImageFrame

NextImage ==
  \/ ApplyErosion
  \/ ApplyDilation
  \/ ApplyMorphologicalCleaning
  \/ ApplyDocumentSharpening

SpecImage == InitImage /\ [][NextImage]_vars

(***************************************************************************)
(* validateAndFilterFields applied to short lists of candidate fields      *)
(***************************************************************************)
MaxCandidates == 2

\* for each label a value its validator accepts and one it rejects; "Email" has
\* no validator
CandidateValues ==
  [ label \in {"Card Number", "Name", "Address", "License Class", "Date of Birth",
               "Expiry Date", "License Fee", "Email"} |->
      CASE label = "Card Number" -> {"12345678", "12"}
        [] label = "Name" -> {"John Smith", "Bob"}
        [] label = "Address" -> {"12 Main Street NSW 2000", "nowhere"}
        [] label = "License Class" -> {"C", "ZZ"}
        [] label \in {"Date of Birth", "Expiry Date"} -> {"20 AUG 1976", "1976"}
        [] label = "License Fee" -> {"$60.00", "$0"}
        [] OTHER -> {"a@b.co"} ]

CandidateConfidences == {60, 70, 72, 75, 80, 99}

CandidateFields ==
  UNION { { Field(label, v, c) : v \in CandidateValues[label], c \in CandidateConfidences } :
          label \in DOMAIN CandidateValues }

CandidateLists == UNION { [1..n -> CandidateFields] : n \in 0..MaxCandidates }

InitValidate ==
  /\ host = "library"
  /\ InitCommon
  /\ inputText = ""
  /\ outputFields = <<>>
  /\ extracted = FALSE
  /\ InitNoRaster
  /\ candidates \in CandidateLists
  /\ validFields = <<>>
  /\ validated = FALSE
  /\ InitNoLicense

ValidateAndFilterFields ==
  /\ ~validated
  /\ validFields' = validateAndFilterFields(candidates, analyzeDocumentStructure(<<>>))
  /\ validated' = TRUE
  /\ UNCHANGED <<host, uiVars, storeVars, hfs, pdVars, ocrVars, inputText, outputFields,
                 extracted, rasterVars, candidates, licenseVars, cleanVars>>

NextValidate == ValidateAndFilterFields

SpecValidate == InitValidate /\ [][NextValidate]_vars

(***************************************************************************)
(* extractLicenseFields and extractDates applied to short lists of lines   *)
(***************************************************************************)
MaxLines == 3

LicenceLines ==
  { "Card Number 12345678", "John Smith", "12 Main Street Sydney NSW 2000", "Class C", "MR",
    "Date of Birth 20 AUG 1976", "Expiry 19 JAN 2029", "20 AUG 1976", "19 JAN 2029",
    "05 MAY 2001", "Birth 05 MAY 2001 Expiry 20 AUG 1976", "Licence Fee $60.00" }

LineLists == UNION { [1..n -> LicenceLines] : n \in 0..MaxLines }

InitLicense ==
  /\ host = "library"
  /\ InitCommon
  /\ inputText = ""
  /\ outputFields = <<>>
  /\ extracted = FALSE
  /\ InitNoRaster
  /\ candidates = <<>>
  /\ validFields = <<>>
  /\ validated = FALSE
  /\ docLines \in LineLists
  /\ docCandidates = <<>>
  /\ docFields = <<>>
  /\ docOp = "none"
  /\ InitNoClean

LicenseFrame == UNCHANGED <<host, uiVars, storeVars, hfs, pdVars, ocrVars, inputText, outputFields,
                            extracted, rasterVars, filterVars, docLines, cleanVars>>

\* extractLicenseFields(lines); the list it hands to validateAndFilterFields is kept
ExtractLicenseFields ==
  /\ docOp = "none"
  /\ docCandidates' = licenseCandidates(analyzeDocumentStructure(docLines))
  /\ docFields' = extractLicenseFields(docLines)
  /\ docOp' = "extractLicenseFields"
  /\ LicenseFrame

\* extractDates(fields, structure) with no field yet and the lines as they are
\* sorted into the sections
ExtractDates ==
  /\ docOp = "none"
  /\ docCandidates' = <<>>
  /\ docFields' = extractDates(<<>>, analyzeDocumentStructure(docLines))
  /\ docOp' = "extractDates"
  /\ LicenseFrame

NextLicense ==
  \/ ExtractLicenseFields
  \/ ExtractDates

SpecLicense == InitLicense /\ [][NextLicense]_vars

(***************************************************************************)
(* cleanExtractedText applied to recognised texts of a few lines           *)
(***************************************************************************)
MaxRawLines == 2

RECURSIVE Repeat(_, _)
Repeat(piece, n) == IF n = 0 THEN "" ELSE piece \o Repeat(piece, n - 1)

\* lines of 101 and of 100 characters without a keyword, in one word and in
\* several; lines of more than 100 characters with a keyword, as a word of its
\* own and inside a longer word
noiseLine == Repeat("x", NoiseLength + 1)
noiseWords == Repeat("qz ", 33) \o "qz"
borderLine == Repeat("x", NoiseLength)
keywordLine == "name " \o Repeat("x", NoiseLength)
insideWordLine == "names " \o Repeat("x", NoiseLength)

RawLines ==
  { "John Smith", "Card 12", "Total 5", "A-1", "ok",
    noiseLine, noiseWords, borderLine, keywordLine, insideWordLine }

RECURSIVE RawTextsOf(_)
RawTextsOf(n) ==
  IF n = 0 THEN {""}
  ELSE IF n = 1 THEN RawLines
  ELSE { t \o "\n" \o l : t \in RawTextsOf(n - 1), l \in RawLines }
RawTexts == UNION { RawTextsOf(n) : n \in 0..MaxRawLines }

InitClean ==
  /\ host = "library"
  /\ InitCommon
  /\ inputText = ""
  /\ outputFields = <<>>
  /\ extracted = FALSE
  /\ InitNoRaster
  /\ candidates = <<>>
  /\ validFields = <<>>
  /\ validated = FALSE
  /\ docLines = <<>>
  /\ docCandidates = <<>>
  /\ docFields = <<>>
  /\ docOp = "none"
  /\ rawText \in RawTexts
  /\ cleanText = ""
  /\ cleaningDone = FALSE
  /\ storageCalls = <<>>

CleanExtractedText ==
  /\ ~cleaningDone
  /\ cleanText' = cleanExtractedText(rawText)
  /\ cleaningDone' = TRUE
  /\ UNCHANGED <<host, uiVars, storeVars, hfs, pdVars, ocrVars, inputText, outputFields,
                 extracted, rasterVars, filterVars, licenseVars, rawText, storageCalls>>

NextClean == CleanExtractedText

SpecClean == InitClean /\ [][NextClean]_vars

(***************************************************************************)
(* documentStorage called by a caller of the module                        *)
(***************************************************************************)
MaxCalls == 4

\* the records a caller saves: two of them share their id
SavedDocuments ==
  { [id |-> i, fileName |-> n, fileType |-> "image/png", timestamp |-> 1,
     extractedText |-> "text", confidence |-> <<90, 1>>, fields |-> <<>>,
     imageData |-> "image", enhancedImageData |-> "enhanced image"] :
    i \in {"1", "2"}, n \in {"a.png", "b.png"} }

DocumentIds == {"1", "2", "3"}

InitStorage ==
  /\ host = "library"
  /\ InitCommon
  /\ inputText = ""
  /\ outputFields = <<>>
  /\ extracted = FALSE
  /\ InitNoRaster
  /\ InitNoFilter

StorageFrame == UNCHANGED <<host, uiVars, clock, hfs, pdVars, ocrVars, inputText, outputFields,
                            extracted, rasterVars, filterVars, licenseVars, rawText, cleanText,
                            cleaningDone>>

SaveDocument ==
  /\ Len(storageCalls) < MaxCalls
  /\ \E document \in SavedDocuments :
       /\ localStorage' = saveDocument(localStorage, document)
       /\ storageCalls' = Append(storageCalls, [op |-> "saveDocument", document |-> document,
                                                id |-> document.id])
  /\ StorageFrame

DeleteDocument ==
  /\ Len(storageCalls) < MaxCalls
  /\ \E id \in DocumentIds :
       /\ localStorage' = deleteDocument(localStorage, id)
       /\ storageCalls' = Append(storageCalls, [op |-> "deleteDocument", document |-> <<>>,
                                                id |-> id])
  /\ StorageFrame

ClearHistory ==
  /\ Len(storageCalls) < MaxCalls
  /\ localStorage' = clearHistory(localStorage)
  /\ storageCalls' = Append(storageCalls, [op |-> "clearHistory", document |-> <<>>, id |-> ""])
  /\ StorageFrame

NextStorage ==
  \/ SaveDocument
  \/ DeleteDocument
  \/ ClearHistory

SpecStorage == InitStorage /\ [][NextStorage]_vars

(***************************************************************************)
(* Properties of performOCR                                                *)
(***************************************************************************)
\* the positions of performOCR after the first recognition has returned a result
\* and the decision on the fallback has been taken
afterFirstResult == {"fbCreateWorker", "fbRecognize", "fbTerminate", "fbCatchTerminate", "resolved"}

\* C1: once the first recognition of a run of performOCR has returned, the
\* fallback has been invoked exactly once when the first confidence is below 40
\* and not at all when it is 40 or more; no run makes more than one fallback
\* attempt, nor more than two recognitions
C1_FallbackIffLowConfidence ==
  /\ ocr.fallbacks <= 1
  /\ ocr.recognitions <= 2
  /\ ocr.pc \in afterFirstResult =>
       ocr.fallbacks = (IF ocr.first.confidence < 40 THEN 1 ELSE 0)
  /\ ocr.pc \in {"idle", "createWorker", "recognize", "terminate", "catchTerminate", "rejected"} =>
       ocr.fallbacks = 0

\* a run with first confidence 39 has made its one fallback attempt and returned
C1_Witness ==
  /\ ocr.pc = "resolved"
  /\ ocr.first.confidence = 39
  /\ ocr.fallbacks = 1
  /\ ocr.recognitions = 2

\* C2: performOCR returns the (cleaned) text and the confidence of the fallback
\* attempt exactly when a fallback result exists and its confidence is strictly
\* greater than the first one, the (cleaned) text and the confidence of the first
\* attempt in every other case; the confidence returned is never below the first
C2_ReturnsTheBetterResult ==
  ocr.pc = "resolved" =>
    /\ IF ocr.fallback # NoResult /\ ocr.fallback.confidence > ocr.first.confidence
       THEN /\ ocr.ret.text = cleanedTexts[ocr.fallback.text]
            /\ ocr.ret.confidence = ocr.fallback.confidence
       ELSE /\ ocr.ret.text = cleanedTexts[ocr.first.text]
            /\ ocr.ret.confidence = ocr.first.confidence
    /\ ocr.ret.confidence >= ocr.first.confidence

\* a fallback with another text and a greater confidence than the first attempt
\* has been returned
C2_Witness ==
  /\ ocr.pc = "resolved"
  /\ ocr.fallback # NoResult
  /\ ocr.fallback.text # ocr.first.text
  /\ ocr.fallback.confidence > ocr.first.confidence
  /\ ocr.ret = [text |-> cleanedTexts[ocr.fallback.text], confidence |-> ocr.fallback.confidence]

\* C8: every worker created by performOCR or by performFallbackOCR has been
\* terminated exactly once when performOCR settles, and none is ever terminated
\* twice
C8_WorkersTerminatedOnce ==
  /\ \A k \in 1..Len(ocr.workers) : ocr.workers[k].terminated <= 1
  /\ ocr.pc \in {"resolved", "rejected"} =>
       \A k \in 1..Len(ocr.workers) : ocr.workers[k].terminated = 1
  /\ ocr.pc \in {"idle", "resolved", "rejected"} => liveWorkers = 0

\* performOCR has settled after the recognition of its fallback threw: two
\* workers, both terminated once
C8_Witness ==
  /\ ocr.pc = "resolved"
  /\ Len(ocr.workers) = 2
  /\ ocr.fallbacks = 1
  /\ ocr.fallback = NoResult
  /\ \A k \in 1..2 : ocr.workers[k].terminated = 1

(***************************************************************************)
(* Properties of the batch loops of handleFileSelect and processDocument   *)
(***************************************************************************)
\* the loop of handleFileSelect has run to its end
hfsLoopDone == hfs.pc = "returned" /\ hfs.imagesToProcess # <<>>
\* the loop of processDocument has run to its end
pdLoopDone == pd.pc \in {"saveHistoryEntry", "resolved"}

\* every page up to the current one has been taken in order, whatever failed before
inPageOrder ==
  /\ hfs.pc \in {"enhanceImage", "performOCR"} =>
       /\ hfs.enhanceCalls = hfs.i + 1
       /\ Len(hfs.allExtractedText) = hfs.i
  /\ hfs.pc = "performOCR" =>
       ocr.imageData = "enhanced " \o hfs.imagesToProcess[hfs.i + 1].imageData
  /\ hfsLoopDone =>
       /\ hfs.enhanceCalls = Len(hfs.imagesToProcess)
       /\ Len(hfs.allExtractedText) = Len(hfs.imagesToProcess)
  /\ pd.pc = "performOCR" =>
       /\ pd.ocrCalls = pd.i + 1
       /\ ocr.imageData = pd.pageImages[pd.i + 1]
  /\ pdLoopDone => pd.ocrCalls = Len(pd.pageImages)
  /\ pd.pc = "rejected" => pd.ocrCalls = 0

\* the step that takes a rejected performOCR goes on with the next page or, after
\* the last page, builds the result
afterFailedRecognition ==
  /\ (ocr.pc = "rejected" /\ hfs.pc = "performOCR" /\ hfs' # hfs) =>
       IF hfs.i + 1 < Len(hfs.imagesToProcess)
       THEN hfs'.pc = "enhanceImage" /\ hfs'.i = hfs.i + 1
       ELSE /\ hfs'.pc = "returned"
            /\ processingStage' = "complete"
            /\ currentDocument' # <<>>
            /\ Len(localStorage') = Len(localStorage) + 1
  /\ (ocr.pc = "rejected" /\ pd.pc = "performOCR" /\ pd' # pd) =>
       IF pd.i + 1 < Len(pd.pageImages)
       THEN pd'.pc = "performOCR" /\ pd'.i = pd.i + 1
       ELSE pd'.pc = "saveHistoryEntry"

\* C3: a failed recognition of one page does not abort the batch: the later
\* pages are still enhanced and recognised in order and the operation ends with
\* its aggregated result, in handleFileSelect and in processDocument
C3_RecognitionFailureDoesNotAbort == []inPageOrder /\ [][afterFailedRecognition]_vars

\* a batch of three pages whose first page failed at performOCR has been
\* completed: the two later pages were recognised and the document is shown
C3_Witness ==
  /\ hfsLoopDone
  /\ Len(hfs.imagesToProcess) = 3
  /\ hfs.caught = << [page |-> 1, step |-> "performOCR"] >>
  /\ hfs.ocrCalls = 3
  /\ processingStage = "complete"
  /\ currentDocument # <<>>

\* the pages of the run of handleFileSelect whose processing failed
hfsFailedPages == { hfs.caught[k].page : k \in 1..Len(hfs.caught) }

\* the number of entries of an aggregated text of processDocument
entriesOf(text) == Len(MatchAll(Lit("=== Page "), text))

\* C4: a batch of n pages ends with n entries in page order, an error placeholder
\* for each page that failed and a text entry for each other page
C4_OneEntryPerPage ==
  /\ hfsLoopDone =>
       /\ Len(hfs.allExtractedText) = Len(hfs.imagesToProcess)
       /\ \A k \in 1..Len(hfs.allExtractedText) :
            (k \in hfsFailedPages) <=>
              (hfs.allExtractedText[k] = errorPlaceholder(hfs.imagesToProcess[k], k - 1))
  /\ pdLoopDone => entriesOf(pd.aggregatedText) = Len(pd.pageImages)

\* C5: the aggregate confidence of a batch of n pages is the sum of the
\* confidences of the recognised pages divided by n, and lies in [0, 100]
C5_AverageOverAllPages ==
  /\ (hfsLoopDone /\ timer /\ localStorage # <<>> /\ localStorage[1].id = ToString(clock - 1)) =>
       /\ localStorage[1].confidence = Rat(hfs.totalConfidence, Len(hfs.imagesToProcess))
       /\ RatLeq(<<0, 1>>, localStorage[1].confidence)
       /\ RatLeq(localStorage[1].confidence, <<100, 1>>)
  /\ (pdLoopDone /\ pd.pageImages # <<>>) =>
       /\ pd.ret.confidence = Rat(SumSeq(pd.confidences), Len(pd.pageImages))
       /\ RatLeq(<<0, 1>>, pd.ret.confidence)
       /\ RatLeq(pd.ret.confidence, <<100, 1>>)

\* C6: a failure of the enhancement of one page is caught and turned into a
\* placeholder for that page, the remaining pages are processed, and the
\* operation is never rejected because of it
C6_EnhancementFailureIsCaught ==
  /\ \A k \in 1..Len(hfs.caught) :
       hfs.allExtractedText[hfs.caught[k].page] =
         errorPlaceholder(hfs.imagesToProcess[hfs.caught[k].page], hfs.caught[k].page - 1)
  /\ hfsLoopDone => hfs.enhanceCalls = Len(hfs.imagesToProcess)
  /\ pd.thrown # "enhanceImage"

\* the pages of the PDF are being obtained: nothing has been enhanced or recognised
obtainingPages == hfs.pc \in {"getDocument", "getPage"}
nothingProcessed ==
  /\ (obtainingPages \/ (hfs.pc = "returned" /\ hfs.imagesToProcess = <<>>)) =>
       hfs.enhanceCalls = 0 /\ hfs.ocrCalls = 0
  /\ hfs.pc \in {"enhanceImage", "performOCR"} => hfs.imagesToProcess # <<>>

\* extractPDFPages throws or returns no page: handleFileSelect returns from its
\* catch block
abortsWithoutPages ==
  (obtainingPages /\ hfs'.pc = "returned") =>
    /\ hfs'.imagesToProcess = <<>>
    /\ hfs'.enhanceCalls = 0 /\ hfs'.ocrCalls = 0
    /\ UNCHANGED <<localStorage, documentHistory, currentDocument>>
    /\ toast' = "PDF Error"
    /\ processingStage' = "null"

\* C7: when the pages of a PDF cannot be obtained the operation aborts: no page
\* is enhanced or recognised, no record is saved, no current document is set, and
\* the stage is null again after the error toast
C7_NoPagesAborts == []nothingProcessed /\ [][abortsWithoutPages]_vars

\* extractPDFPages threw after the first of three pages had been rendered
C7_Witness ==
  /\ hfs.pc = "returned"
  /\ hfs.file.type = "application/pdf"
  /\ hfs.totalPages = 3 /\ Len(hfs.pdfPages) = 1
  /\ hfs.imagesToProcess = <<>>
  /\ toast = "PDF Error"
  /\ processingStage = "null"
  /\ currentDocument = <<>> /\ localStorage = <<>>

(***************************************************************************)
(* Properties of extractFields                                             *)
(***************************************************************************)
\* C9: the list returned by extractFields has no two entries with the same
\* label and the same value
C9_NoDuplicateFields ==
  extracted =>
    \A j, k \in 1..Len(outputFields) :
      (outputFields[j].label = outputFields[k].label
       /\ outputFields[j].value = outputFields[k].value) => j = k

\* a text that holds the same address twice has given one Email field
C9_Witness ==
  /\ extracted
  /\ inputText = "a@b.co\na@b.co"
  /\ outputFields = << Field("Email", "a@b.co", 90) >>

\* C10: "Invoice Number: A-1234" gives the field Invoice Number = A-1234 with
\* confidence 90
C10_InvoiceNumberRoundTrip ==
  (extracted /\ inputText = "Invoice Number: A-1234") =>
    \E k \in 1..Len(outputFields) : outputFields[k] = Field("Invoice Number", "A-1234", 90)

\* the list returned by extractFields holds the field label = value
hasField(label, value) ==
  \E k \in 1..Len(outputFields) :
    outputFields[k].label = label /\ outputFields[k].value = value

\* the two lines of a licence that carry its dates, in both orders
birthLine == "Date of Birth 20 AUG 1976"
expiryLine == "Expiry 19 JAN 2029"
datedLicences ==
  { "Licence\n" \o birthLine \o "\n" \o expiryLine,
    "Licence\n" \o expiryLine \o "\n" \o birthLine }

\* C11: the lines "Date of Birth 20 AUG 1976" and "Expiry 19 JAN 2029" of a
\* licence give Date of Birth = 20 AUG 1976 and Expiry Date = 19 JAN 2029 in
\* whichever order they stand
C11_DateRolesIgnoreOrder ==
  (extracted /\ inputText \in datedLicences) =>
    hasField("Date of Birth", "20 AUG 1976") /\ hasField("Expiry Date", "19 JAN 2029")

\* the lines extractFields hands to its extractors
linesOfInput == splitLines(normalizeForExtraction(inputText))
\* the text holds one of the keywords, in any case
mentions(words) == \E w \in words : includes(toLowerCase(join(linesOfInput, " ")), w)

\* the extractor of the first category, in the fixed order, that has a keyword
\* in the text
extractorByPriority ==
  IF mentions({"licence", "license", "driver"}) THEN extractLicenseFields(linesOfInput)
  ELSE IF mentions({"invoice", "receipt", "total", "amount"})
       THEN extractInvoiceFields(linesOfInput)
  ELSE IF mentions({"passport", "travel document"}) THEN extractPassportFields(linesOfInput)
  ELSE IF mentions({"card", "id", "identification"}) THEN extractLicenseFields(linesOfInput)
  ELSE extractGenericFields(linesOfInput)

\* C12: the text is given one document type by the fixed priority licence,
\* invoice, passport, id, generic, and extractFields returns what the extractor
\* of that type returns
C12_TypeByFixedPriority ==
  /\ detectDocumentType(linesOfInput) =
       (IF mentions({"licence", "license", "driver"}) THEN "license"
        ELSE IF mentions({"invoice", "receipt", "total", "amount"}) THEN "invoice"
        ELSE IF mentions({"passport", "travel document"}) THEN "passport"
        ELSE IF mentions({"card", "id", "identification"}) THEN "id"
        ELSE "generic")
  /\ extracted => outputFields = extractorByPriority

\* a text with "passport" and "total" has been handled by the invoice extractor,
\* which returns something else than the passport extractor
C12_Witness ==
  /\ extracted
  /\ inputText = "Passport No: X1234567 Total: $5.00"
  /\ outputFields = extractInvoiceFields(linesOfInput)
  /\ outputFields # extractPassportFields(linesOfInput)

\* C13: every field extractFields returns has a confidence of at least 75 and at
\* most 100
C13_ConfidenceAtLeast75 ==
  extracted =>
    \A k \in 1..Len(outputFields) :
      outputFields[k].confidence >= 75 /\ outputFields[k].confidence <= 100

\* a generic text has given its label/value pair, the field of least confidence
C13_Witness ==
  /\ extracted
  /\ inputText = "Name: Bob"
  /\ outputFields = << Field("Name", "Bob", 80) >>

\* a list of fields: label, value and confidence in each entry
isFieldList(fields) ==
  \A k \in 1..Len(fields) : DOMAIN fields[k] = {"label", "value", "confidence"}

pixelOf(data, x, y, width) == << at(data, (y * width + x) * 4), at(data, (y * width + x) * 4 + 1),
                                 at(data, (y * width + x) * 4 + 2), at(data, (y * width + x) * 4 + 3) >>

\* the image is one pixel of the foreground value at the interior position p on
\* a background that fills every other pixel
isolatedAt(p, background) ==
  /\ inLoop(p[1], p[2], raster.width, raster.height)
  /\ raster = greyImage(raster.width, raster.height, background, {p})

\* C15: after the opening (erosion, then dilation) of an image that is one
\* isolated interior foreground pixel on a background, that pixel has the
\* background value, whether the background is 0 or 255
C15_OpeningErasesIsolatedPixel ==
  rasterOp = "applyMorphologicalCleaning" =>
    \A background \in {0, 255} : \A p \in Positions(raster.width, raster.height) :
      isolatedAt(p, background) =>
        at(rasterOut, (p[2] * raster.width + p[1]) * 4) = background

\* the part of C15 the code has: a 255 pixel on a background of 0 is erased
C15_BrightPixelErased ==
  rasterOp = "applyMorphologicalCleaning" =>
    \A p \in Positions(raster.width, raster.height) :
      isolatedAt(p, 0) => at(rasterOut, (p[2] * raster.width + p[1]) * 4) = 0

isBorder(p, width, height) == p[1] = 0 \/ p[2] = 0 \/ p[1] = width - 1 \/ p[2] = height - 1

\* C16: erosion, dilation and sharpening return every border pixel with the four
\* channels it had in the input
C16_BorderPixelsUnmodified ==
  rasterOp \in {"applyErosion", "applyDilation", "applyDocumentSharpening"} =>
    \A p \in Positions(raster.width, raster.height) :
      isBorder(p, raster.width, raster.height) =>
        pixelOf(rasterOut, p[1], p[2], raster.width) = pixelOf(raster.data, p[1], p[2], raster.width)

\* what the code does at the border: the four channels are 0
C16_BorderPixelsZeroed ==
  rasterOp # "none" =>
    \A p \in Positions(raster.width, raster.height) :
      isBorder(p, raster.width, raster.height) =>
        pixelOf(rasterOut, p[1], p[2], raster.width) = <<0, 0, 0, 0>>

(***************************************************************************)
(* Properties of the progress and of the stage shown by Index              *)
(***************************************************************************)
inPercentRange(p) == RatLeq(<<0, 1>>, p) /\ RatLeq(p, <<100, 1>>)

\* C17: every progress value the page shows and every value passed to the
\* onProgress of processDocument lies between 0 and 100, the engine reporting
\* fractions between 0 and 1
C17_ProgressWithinPercentRange ==
  /\ inPercentRange(progress)
  /\ inPercentRange(pdProgress)

\* the part of C17 the code has: the values processDocument passes on
C17_LibraryProgressWithinPercentRange == inPercentRange(pdProgress)

\* C19: the stage the page shows is that of the work under way: "enhancing"
\* while a page is enhanced, "extracting" while a page is recognised, and
\* "complete" only once every page has been processed
C19_StageMatchesActivity ==
  /\ hfs.pc = "enhanceImage" => processingStage = "enhancing"
  /\ hfs.pc = "performOCR" => processingStage = "extracting"
  /\ processingStage = "complete" => hfsLoopDone

\* the part of C19 the code has: the stage of a recognition, and of completion
C19_ExtractingAndCompleteMatch ==
  /\ hfs.pc = "performOCR" => processingStage = "extracting"
  /\ processingStage = "complete" => hfsLoopDone

(***************************************************************************)
(* Properties of extractPDFPages                                           *)
(***************************************************************************)
pdfPrefix == "Failed to extract PDF. "

\* the four kinds of failure, told by the message of the Error
isPasswordProtected(message) == message = pdfPrefix \o passwordMessage
isCorruptDocument(message) == message = pdfPrefix \o corruptMessage
isDocumentNotFound(message) == message = pdfPrefix \o missingMessage
isUnknownRasterizationError(message) ==
  \/ message = pdfPrefix \o unknownMessage
  \/ startsWith(message, pdfPrefix \o "Error: ")

kindsOf(message) ==
  { k \in {"PasswordProtected", "CorruptDocument", "DocumentNotFound", "UnknownRasterizationError"} :
      \/ k = "PasswordProtected" /\ isPasswordProtected(message)
      \/ k = "CorruptDocument" /\ isCorruptDocument(message)
      \/ k = "DocumentNotFound" /\ isDocumentNotFound(message)
      \/ k = "UnknownRasterizationError" /\ isUnknownRasterizationError(message) }

\* one image per page, numbered 1..n in ascending order
isFullPageList(pages, n) ==
  /\ Len(pages) = n
  /\ \A k \in 1..Len(pages) : pages[k].pageNumber = k

passesValidator(field) ==
  CASE field.label = "Card Number" -> isValidCardNumber(field.value)
    [] field.label = "Name" -> isValidName(field.value)
    [] field.label = "Address" -> isValidAddress(field.value)
    [] field.label = "License Class" -> isValidLicenseClass(field.value)
    [] field.label \in {"Date of Birth", "Expiry Date"} -> Test(reValidDate, field.value)
    [] field.label = "License Fee" -> isValidAmount(removeFirst(field.value, "$"))

\* the confidence from which a failed validation is forgiven: the one the code
\* names for the label, the general floor for the card number, which has none
overrideThreshold(label) ==
  CASE label \in {"Card Number", "Name", "Address"} -> 75
    [] label \in {"License Class", "Date of Birth", "Expiry Date"} -> 70
    [] label = "License Fee" -> 80

hasValidator(field) ==
  field.label \in {"Card Number", "Name", "Address", "License Class", "Date of Birth",
                   "Expiry Date", "License Fee"}

isKept(field) == \E k \in 1..Len(validFields) : validFields[k] = field

C20_HoldsFromTheFloorExceptCardNumber ==
  validated =>
    \A k \in 1..Len(candidates) :
      (hasValidator(candidates[k]) /\ candidates[k].label # "Card Number"
         /\ candidates[k].confidence >= minConfidence) =>
        (~isKept(candidates[k]) <=>
           (~passesValidator(candidates[k])
              /\ candidates[k].confidence < overrideThreshold(candidates[k].label)))

\* a card number that fails its validator is dropped at the highest confidence
C20_InvalidCardNumberDropped ==
  /\ validated
  /\ candidates = << Field("Card Number", "12", 99) >>
  /\ validFields = <<>>

\* a licence class that passes its validator is dropped below the floor
C20_ValidClassDroppedBelowFloor ==
  /\ validated
  /\ candidates = << Field("License Class", "C", 72) >>
  /\ validFields = <<>>

\* the sample values are accepted and rejected as the list of candidates says
C20_SamplesAreWhatTheyAreFor ==
  \A label \in DOMAIN CandidateValues \ {"Email"} :
    \E v, w \in CandidateValues[label] :
      passesValidator(Field(label, v, 99)) /\ ~passesValidator(Field(label, w, 99))

(***************************************************************************)
(* Properties of extractLicenseFields and extractDates                     *)
(***************************************************************************)
\* C21: when no line of the class section gives a class and the text holds a
\* known class as a word of one or two capital letters, extractLicenseFields
\* returns a License Class field with that word and confidence 85
C21_ClassFallbackFindsToken ==
  (docOp = "extractLicenseFields" /\ docLines = << "MR" >>) =>
    \E k \in 1..Len(docFields) : docFields[k] = Field("License Class", "MR", 85)

\* what the code does: no field of confidence 85 is ever returned
C21_FallbackNeverFires ==
  docOp = "extractLicenseFields" =>
    \A k \in 1..Len(docFields) : docFields[k].confidence # 85

labelsOnce(fields) ==
  \A j, k \in 1..Len(fields) : fields[j].label = fields[k].label => j = k

\* C22: what extractLicenseFields returns, what its extractors pushed and what
\* extractDates returns hold at most one field for each label, whatever the
\* lines and however many dates match
C22_OneFieldPerLabel ==
  docOp # "none" => labelsOnce(docFields) /\ labelsOnce(docCandidates)

\* two dates stand under "birth": the first is the Date of Birth, the second
\* does not become another one
C22_Witness ==
  /\ docOp = "extractLicenseFields"
  /\ docLines = << "Date of Birth 20 AUG 1976", "Birth 05 MAY 2001 Expiry 20 AUG 1976" >>
  /\ \E k \in 1..Len(docFields) : docFields[k] = Field("Date of Birth", "20 AUG 1976", 98)
  /\ \A k \in 1..Len(docFields) : docFields[k].value = "05 MAY 2001" =>
                                    docFields[k].label = "Expiry Date"

\* the distinct dates of the date section of the lines, in the order found
datesFound == uniqueByDate(collectDates(analyzeDocumentStructure(docLines).dateSection, 1))
\* the fields assigned by keyword, and the dates they left
byKeyword == SelectSeq(docFields, LAMBDA f : f.confidence = 98)
leftOver == SelectSeq(datesFound, LAMBDA d : ~HasValue(byKeyword, d.date))
\* the fields assigned by position
expectedByPosition ==
  (IF Len(leftOver) >= 1 /\ ~HasLabel(byKeyword, "Date of Birth")
   THEN << Field("Date of Birth", leftOver[1].date, 90) >> ELSE <<>>)
  \o (IF Len(leftOver) >= 2 /\ ~HasLabel(byKeyword, "Expiry Date")
      THEN << Field("Expiry Date", leftOver[2].date, 90) >> ELSE <<>>)

\* C23: after the assignment by keyword extractDates assigns the dates left by
\* position: the first to Date of Birth if that label is unset, the second to
\* Expiry Date if that label is unset, and no other
C23_RemainingDatesByPosition ==
  docOp = "extractDates" => docFields = byKeyword \o expectedByPosition

\* the Date of Birth comes from a keyword and two dates are left: the first of
\* them is not assigned, the second is the Expiry Date
C23_Witness ==
  /\ docOp = "extractDates"
  /\ docLines = << "Date of Birth 20 AUG 1976", "19 JAN 2029", "05 MAY 2001" >>
  /\ docFields = << Field("Date of Birth", "20 AUG 1976", 98),
                    Field("Expiry Date", "05 MAY 2001", 90) >>

isDateField(f) == f.label \in {"Date of Birth", "Expiry Date"}

\* C28: in what extractDates returns the Date of Birth and the Expiry Date never
\* carry the same date, and no date is the value of two date fields, whether
\* the lines repeat a date or name both "birth" and "expir"
C28_DatesAssignedOnce ==
  docOp # "none" =>
    \A j, k \in 1..Len(docFields) :
      (isDateField(docFields[j]) /\ isDateField(docFields[k])
         /\ docFields[j].value = docFields[k].value) => j = k

\* the same date on two lines without keyword: it is the Date of Birth only
C28_Witness ==
  /\ docOp = "extractDates"
  /\ docLines = << "20 AUG 1976", "20 AUG 1976" >>
  /\ docFields = << Field("Date of Birth", "20 AUG 1976", 90) >>

\* a date repeated on a line that names both roles is not assigned again
C28_WitnessBothKeywords ==
  /\ docOp = "extractDates"
  /\ docLines = << "Date of Birth 20 AUG 1976", "Birth 05 MAY 2001 Expiry 20 AUG 1976" >>
  /\ docFields = << Field("Date of Birth", "20 AUG 1976", 98),
                    Field("Expiry Date", "05 MAY 2001", 98) >>

\* the place of a label in the order the extractors are called
extractorRank(label) ==
  CASE label = "Card Number" -> 1
    [] label = "Name" -> 2
    [] label = "Address" -> 3
    [] label = "License Class" -> 4
    [] label \in {"Date of Birth", "Expiry Date"} -> 5
    [] label = "License Fee" -> 6

\* C29: in extractLicenseFields the final validation drops nothing: the list
\* returned is the list the six extractors pushed, in the order card number,
\* name, address, class, dates, fee
C29_ValidationKeepsEveryCandidate ==
  docOp = "extractLicenseFields" =>
    /\ docFields = docCandidates
    /\ \A j, k \in 1..Len(docFields) :
         j < k => extractorRank(docFields[j].label) <= extractorRank(docFields[k].label)

\* lines given out of order: a fee, a date without keyword, a card number
C29_Witness ==
  /\ docOp = "extractLicenseFields"
  /\ docLines = << "Licence Fee $60.00", "20 AUG 1976", "Card Number 12345678" >>
  /\ docCandidates = << Field("Card Number", "12345678", 95),
                        Field("Date of Birth", "20 AUG 1976", 90),
                        Field("License Fee", "$60.00", 97) >>
  /\ docFields = docCandidates

(***************************************************************************)
(* Properties of cleanExtractedText                                        *)
(***************************************************************************)
noiseKeywords == {"name", "card", "licence", "address", "date", "class", "fee"}

\* the non-empty lines of the recognised text
rawLines == splitLines(rawText)

\* longer than 100 characters and without any of the keywords
isNoise(line) ==
  Len(line) > NoiseLength /\ ~\E w \in noiseKeywords : includes(toLowerCase(line), w)

\* C24: cleanExtractedText discards a line exactly when it is longer than 100
\* characters and holds none of the keywords; every other non-empty line of the
\* recognised text is in the text returned
C24_NoiseLinesOnlyAreDropped ==
  cleaningDone =>
    \A k \in 1..Len(rawLines) : isNoise(rawLines[k]) <=> ~includes(cleanText, rawLines[k])

\* what the code does: the white space is collapsed first, so the text is one
\* line, kept or dropped as a whole by its length and by a keyword standing as
\* a word of its own
C24_TextKeptOrDroppedAsAWhole ==
  cleaningDone =>
    cleanText = (IF Len(join(rawLines, " ")) > NoiseLength
                    /\ ~Test(reDomainKeyword, join(rawLines, " "))
                 THEN "" ELSE join(rawLines, " "))

\* a short line is lost with the noisy line that follows it
C24_ShortLineLost ==
  /\ cleaningDone
  /\ rawText = "John Smith\n" \o noiseLine
  /\ cleanText = ""

(***************************************************************************)
(* Properties of the lines extractFields works on                          *)
(***************************************************************************)
structureOfInput == analyzeDocumentStructure(linesOfInput)

sectionsOfInput ==
  { structureOfInput.headerSection, structureOfInput.cardSection,
    structureOfInput.addressSection, structureOfInput.classSection,
    structureOfInput.dateSection, structureOfInput.feeSection }

fallbackFails ==
  \/ ocr.pc = "fbCreateWorker" /\ ocr'.pc \notin {"fbCreateWorker", "fbRecognize"}
  \/ ocr.pc = "fbCatchTerminate" /\ ocr'.pc # "fbCatchTerminate"

returnsFirstAttempt ==
  /\ ocr'.pc = "resolved"
  /\ ocr'.ret = [text |-> cleanedTexts[ocr.first.text], confidence |-> ocr.first.confidence]

\* C25: when the fallback attempt fails, performOCR resolves with the text and
\* the confidence of the first attempt; it never rejects once a fallback began
C25_FallbackFailureIsAbsorbed ==
  /\ [](ocr.pc = "rejected" => ocr.fallbacks = 0)
  /\ [][fallbackFails => returnsFirstAttempt]_vars

\* the recognition of the fallback threw, its worker was terminated, and
\* performOCR resolved with the first result
C25_Witness ==
  /\ ocr.pc = "resolved"
  /\ ocr.fallbacks = 1
  /\ ocr.fallback = NoResult
  /\ Len(ocr.workers) = 2
  /\ ocr.workers[2].terminated = 1
  /\ ocr.ret = firstResult(ocr)
  /\ ocr.first.confidence = 39

\* C27: at most one engine worker is alive at any moment: the first worker is
\* terminated before the fallback's is created, and the workers of different
\* pages never overlap
C27_AtMostOneWorkerAlive ==
  /\ liveWorkers <= 1
  /\ ocr.pc \in {"fbCreateWorker", "fbRecognize", "fbTerminate", "fbCatchTerminate"} =>
       ocr.workers[1].terminated = 1
  /\ ocr.pc \in {"idle", "createWorker", "resolved", "rejected"} => liveWorkers = 0

\* the fallback's worker is alive on the second page of a document, the first
\* worker of the page being terminated
C27_Witness ==
  /\ liveWorkers = 1
  /\ ocr.pc = "fbRecognize"
  /\ ocr.workers[1].terminated = 1
  /\ ocr.workers[2].terminated = 0
  /\ hfs.pc = "performOCR"
  /\ hfs.i = 1

(***************************************************************************)
(* Properties of documentStorage                                           *)
(***************************************************************************)
\* the save of call p is still in force: no later call cleared the history or
\* deleted its id
inForce(p) ==
  /\ storageCalls[p].op = "saveDocument"
  /\ \A q \in (p + 1)..Len(storageCalls) :
       /\ storageCalls[q].op # "clearHistory"
       /\ ~(storageCalls[q].op = "deleteDocument" /\ storageCalls[q].id = storageCalls[p].id)

\* a saved record as it is to be found: without its two images
withoutImages(document) ==
  [ m \in DOMAIN document \ {"imageData", "enhancedImageData"} |-> document[m] ]

\* the records in force from call p back to the first call
RECURSIVE newestFirst(_)
newestFirst(p) ==
  IF p = 0 THEN <<>>
  ELSE (IF inForce(p) THEN << withoutImages(storageCalls[p].document) >> ELSE <<>>)
       \o newestFirst(p - 1)

\* C30: after any calls of saveDocument, deleteDocument and clearHistory,
\* getDocumentHistory returns the records saved and not deleted or cleared
\* since, the newest first and without their images; deleteDocument removes
\* every record of the id, keeps the order of the others, and changes nothing
\* when no record has the id
C30_HistoryIsTheRecordsInForce ==
  /\ getDocumentHistory(localStorage) = newestFirst(Len(storageCalls))
  /\ \A k \in 1..Len(localStorage) :
       DOMAIN localStorage[k] \cap {"imageData", "enhancedImageData"} = {}

\* two records of one id and one of another were saved and the id of the two
\* deleted: the other record is what is left
C30_Witness ==
  /\ Len(storageCalls) = 4
  /\ storageCalls[1].op = "saveDocument" /\ storageCalls[1].id = "1"
  /\ storageCalls[2].op = "saveDocument" /\ storageCalls[2].id = "2"
  /\ storageCalls[3].op = "saveDocument" /\ storageCalls[3].id = "1"
  /\ storageCalls[4].op = "deleteDocument" /\ storageCalls[4].id = "1"
  /\ localStorage = << withoutImages(storageCalls[2].document) >>

\* deleting an id no record has leaves the history as it was
C30_WitnessAbsentId ==
  /\ Len(storageCalls) = 3
  /\ storageCalls[1].op = "saveDocument" /\ storageCalls[1].id = "1"
  /\ storageCalls[2].op = "saveDocument" /\ storageCalls[2].id = "2"
  /\ storageCalls[3].op = "deleteDocument" /\ storageCalls[3].id = "3"
  /\ localStorage = << withoutImages(storageCalls[2].document),
                       withoutImages(storageCalls[1].document) >>

================================================================================
